---- MODULE Spec2Model ----
(***************************************************************************)
(* A model of the health-tracking application's data-access module         *)
(* (src/src/lib/health-data.ts) and of the page handlers that call it.     *)
(*                                                                         *)
(* Four collections (health metrics, nutrition entries, activities, goals) *)
(* are kept in browser-local storage, each under its own key, as a JSON    *)
(* text.  Every operation reads the whole array, changes it in memory and  *)
(* writes the whole array back.                                            *)
(***************************************************************************)
EXTENDS Integers, Sequences, FiniteSets, TLC

VARIABLES
    window,     \* whether `window` is defined in this runtime (browser, server)
    timeZone,   \* the runtime's local time zone
    hour,       \* the clock's hour of the day, UTC (calls happen at half past)
    storage,    \* localStorage: key -> [present, json] (the item's text)
    now,        \* the clock, as a day number (day 1 is 2026-01-01)
    uuid,       \* how many ids uuidv4() has generated so far
    calls,      \* how many calls that may write have been made (bounded)
    dashboard,  \* the Dashboard component's state (mounted, lists it loaded)
    last,       \* the call that completed last, today: op, arg, ret
    tabs,       \* per open tab: the add it is in the middle of, its results
    goalsPage,  \* the Goals page's state: goals, showForm, editingGoal, form
    opener,     \* the control that was pressed last to open the goal form
    screen      \* the other page that is open: its lists, filters and form

\* What no call of the data-access module changes: the runtime ...
env == <<window, timeZone, hour>>
\* ... and the state of the pages and tabs.
views == <<tabs, goalsPage, opener, screen>>

vars == <<env, storage, now, uuid, calls, dashboard, last, views>>

(***************************************************************************)
(* Bounds of the model.                                                    *)
(***************************************************************************)
StartDay == 310     \* the clock's initial day: 2026-11-06
MaxTicks == 1       \* how many days the clock may advance
MaxCalls == 1       \* how many calls that may write storage follow Init

(***************************************************************************)
(* JavaScript values.  A number is held in hundredths (70 kg is 7000), so  *)
(* that the fractional sample values stay integers.  NaN, the infinities   *)
(* and undefined are values of the language that JSON cannot carry.        *)
(***************************************************************************)
Num(n) == [t |-> "num", n |-> n, s |-> ""]
Str(s) == [t |-> "str", n |-> 0, s |-> s]
Null == [t |-> "null", n |-> 0, s |-> ""]
NaN == [t |-> "nan", n |-> 0, s |-> ""]
Infinity == [t |-> "inf", n |-> 0, s |-> ""]
Undefined == [t |-> "undef", n |-> 0, s |-> ""]

Hundredths(n) == n * 100

\* { ...a, ...b }: the keys of both, b's value where both have the key.
Spread(a, b) ==
    [k \in (DOMAIN a) \cup (DOMAIN b) |-> IF k \in DOMAIN b THEN b[k] ELSE a[k]]

(***************************************************************************)
(* JSON.stringify / JSON.parse.  The text of an array is the sequence of   *)
(* its objects' texts; an object's text is its members, key : literal.  A  *)
(* member whose value is undefined is left out, and a number that is not   *)
(* finite is written as the literal null.                                  *)
(***************************************************************************)
JSONliteral(v) ==
    IF v.t = "num" THEN [j |-> "number", n |-> v.n, s |-> ""]
    ELSE IF v.t = "str" THEN [j |-> "string", n |-> 0, s |-> v.s]
    ELSE [j |-> "null", n |-> 0, s |-> ""]

JSONvalue(l) ==
    IF l.j = "number" THEN Num(l.n)
    ELSE IF l.j = "string" THEN Str(l.s)
    ELSE Null

\* Mutant: a member is written only if its value is truthy (0 and "" go).
JSONstringifyObject_DropsFalsy(o) ==
    [k \in {x \in DOMAIN o : /\ o[x].t # "undef"
                              /\ o[x] # Num(0)
                              /\ o[x] # Str("")} |-> JSONliteral(o[k])]

JSONstringifyObject(o) ==
    [k \in {x \in DOMAIN o : o[x].t # "undef"} |-> JSONliteral(o[k])]

JSONparseObject(m) == [k \in DOMAIN m |-> JSONvalue(m[k])]

JSONstringify(data) == [i \in 1..Len(data) |-> JSONstringifyObject(data[i])]

JSONparse(text) == [i \in 1..Len(text) |-> JSONparseObject(text[i])]

(***************************************************************************)
(* Dates.  new Date().toISOString() is "YYYY-MM-DDTHH:mm:ss.sssZ"; the     *)
(* part before the "T" is the date the module stores and compares.         *)
(***************************************************************************)
IsLeap(y) == (y % 4 = 0 /\ y % 100 # 0) \/ y % 400 = 0

MonthLen(y, m) ==
    IF m = 2 THEN (IF IsLeap(y) THEN 29 ELSE 28)
    ELSE IF m \in {4, 6, 9, 11} THEN 30 ELSE 31

RECURSIVE YMD(_, _, _)
YMD(y, m, d) ==
    IF d > MonthLen(y, m)
    THEN IF m = 12 THEN YMD(y + 1, 1, d - MonthLen(y, m))
                   ELSE YMD(y, m + 1, d - MonthLen(y, m))
    ELSE <<y, m, d>>

Pad2(n) == IF n < 10 THEN "0" \o ToString(n) ELSE ToString(n)

\* The YYYY-MM-DD text of day number d.
DateStr(d) ==
    LET ymd == YMD(2026, 1, d)
    IN  ToString(ymd[1]) \o "-" \o Pad2(ymd[2]) \o "-" \o Pad2(ymd[3])

\* new Date().toISOString() on day t.  The text after the date is kept
\* fixed: the program stores it (createdAt) and never reads it.
toISOString(t) == DateStr(t) \o "T12:00:00.000Z"

\* new Date().toISOString().split('T')[0]
ISODate(t) == DateStr(t)

(***************************************************************************)
(* Local time.  Date's getDate and setDate work in the runtime's local     *)
(* time zone, toISOString in UTC.  An instant is counted in hours from     *)
(* 2026-01-01T00:00Z; a zone with daylight saving time is at UTC-4 between *)
(* 2026-03-08T07:00Z and 2026-11-01T06:00Z and at UTC-5 otherwise.         *)
(***************************************************************************)
TimeZones == {"UTC", "America/New_York"}

Instant(t, h) == (t - 1) * 24 + h

DayOfInstant(inst) == inst \div 24 + 1

DSTStart == Instant(67, 7)
DSTEnd == Instant(305, 6)

UTCOffset(zone, inst) ==
    IF zone = "UTC" THEN 0
    ELSE IF DSTStart <= inst /\ inst < DSTEnd THEN -4 ELSE -5

\* The local wall clock at an instant, in hours.
LocalTime(zone, inst) == inst + UTCOffset(zone, inst)

\* The instant at which the local wall clock shows `wall` (the first one,
\* where an hour repeats; the hour after, where an hour is skipped).
UTCOfLocal(zone, wall) ==
    IF zone = "UTC" THEN wall
    ELSE IF UTCOffset(zone, wall + 4) = -4 THEN wall + 4 ELSE wall + 5

\* date.setDate(date.getDate() - i): the same local time, i days earlier.
setDateBack(zone, inst, i) == UTCOfLocal(zone, LocalTime(zone, inst) - 24 * i)

\* uuidv4(): the n-th id generated; every id is new.
uuidv4(n) == Str("uuid-" \o ToString(n))

(***************************************************************************)
(* Storage.                                                                *)
(***************************************************************************)
HEALTH_METRICS_KEY == "health-metrics"
NUTRITION_ENTRIES_KEY == "nutrition-entries"
ACTIVITIES_KEY == "activities"
GOALS_KEY == "goals"

Keys == {HEALTH_METRICS_KEY, NUTRITION_ENTRIES_KEY, ACTIVITIES_KEY, GOALS_KEY}

\* localStorage.getItem(key) of a key never set is null.
NoItem == [present |-> FALSE, json |-> <<>>]
Item(text) == [present |-> TRUE, json |-> text]

\* Mutant: the read goes to storage without asking whether a window exists.
getFromStorage_NoWindowCheck(w, st, key) ==
    LET data == st[key]
    IN  IF data.present THEN JSONparse(data.json) ELSE <<>>

\* w: whether `window` is defined where the call runs.
getFromStorage(w, st, key) ==
    IF ~w THEN <<>>
    ELSE LET data == st[key]
         IN  IF data.present THEN JSONparse(data.json) ELSE <<>>

saveToStorage(w, st, key, data) ==
    IF ~w THEN st
    ELSE [st EXCEPT ![key] = Item(JSONstringify(data))]


\* o.k for a key the object may lack: undefined when it does.
Field(o, k) == IF k \in DOMAIN o THEN o[k] ELSE Undefined

\* goals.findIndex over goal.id === id: the 0-based index of the first
\* goal with the id, or -1.
findIndexOfId(goals, id) ==
    IF \E i \in 1..Len(goals) : Field(goals[i], "id") = Str(id)
    THEN (CHOOSE i \in 1..Len(goals) :
             /\ Field(goals[i], "id") = Str(id)
             /\ \A j \in 1..(i - 1) : Field(goals[j], "id") # Str(id)) - 1
    ELSE -1

(***************************************************************************)
(* Health metrics.                                                         *)
(***************************************************************************)
getHealthMetrics(w, st) == getFromStorage(w, st, HEALTH_METRICS_KEY)

\* n: the number of the id uuidv4() generates in this call.
addHealthMetric(w, st, n, metric) ==
    LET newMetric == Spread(metric, [id |-> uuidv4(n)])
        metrics   == Append(getHealthMetrics(w, st), newMetric)
    IN  [ret |-> newMetric,
         st |-> saveToStorage(w, st, HEALTH_METRICS_KEY, metrics)]

\* A variant that takes the first metric of the type.
getLatestMetric_First(w, st, type) ==
    LET metrics  == getHealthMetrics(w, st)
        filtered == SelectSeq(metrics, LAMBDA m : Field(m, "type") = Str(type))
    IN  IF Len(filtered) > 0 THEN filtered[1] ELSE Null

getLatestMetric(w, st, type) ==
    LET metrics  == getHealthMetrics(w, st)
        filtered == SelectSeq(metrics, LAMBDA m : Field(m, "type") = Str(type))
    IN  IF Len(filtered) > 0 THEN filtered[Len(filtered)] ELSE Null

(***************************************************************************)
(* Nutrition.                                                              *)
(***************************************************************************)
getNutritionEntries(w, st) == getFromStorage(w, st, NUTRITION_ENTRIES_KEY)

\* A variant that also clears the activities.
addNutritionEntry_ClearsActivities(w, st, n, entry) ==
    LET newEntry == Spread(entry, [id |-> uuidv4(n)])
        entries  == Append(getNutritionEntries(w, st), newEntry)
        saved    == saveToStorage(w, st, NUTRITION_ENTRIES_KEY, entries)
    IN  [ret |-> newEntry,
         st |-> saveToStorage(w, saved, ACTIVITIES_KEY, <<>>)]

addNutritionEntry(w, st, n, entry) ==
    LET newEntry == Spread(entry, [id |-> uuidv4(n)])
        entries  == Append(getNutritionEntries(w, st), newEntry)
    IN  [ret |-> newEntry,
         st |-> saveToStorage(w, st, NUTRITION_ENTRIES_KEY, entries)]

\* t: the clock when the call runs.
\* Mutant: the whole timestamp is compared, not its date part.
getTodaysNutrition_FullTimestamp(w, st, t) ==
    LET today == toISOString(t)
    IN  SelectSeq(getNutritionEntries(w, st),
                  LAMBDA entry : Field(entry, "date") = Str(today))

getTodaysNutrition(w, st, t) ==
    LET today == ISODate(t)
    IN  SelectSeq(getNutritionEntries(w, st),
                  LAMBDA entry : Field(entry, "date") = Str(today))

(***************************************************************************)
(* Activities.                                                             *)
(***************************************************************************)
getActivities(w, st) == getFromStorage(w, st, ACTIVITIES_KEY)

\* Mutant: the new record is put first (unshift) instead of last (push).
addActivity_Unshift(w, st, n, activity) ==
    LET newActivity == Spread(activity, [id |-> uuidv4(n)])
        activities  == <<newActivity>> \o getActivities(w, st)
    IN  [ret |-> newActivity,
         st |-> saveToStorage(w, st, ACTIVITIES_KEY, activities)]

addActivity(w, st, n, activity) ==
    LET newActivity == Spread(activity, [id |-> uuidv4(n)])
        activities  == Append(getActivities(w, st), newActivity)
    IN  [ret |-> newActivity,
         st |-> saveToStorage(w, st, ACTIVITIES_KEY, activities)]

getTodaysActivities(w, st, t) ==
    LET today == ISODate(t)
    IN  SelectSeq(getActivities(w, st),
                  LAMBDA activity : Field(activity, "date") = Str(today))

(***************************************************************************)
(* Goals.                                                                  *)
(***************************************************************************)
getGoals(w, st) == getFromStorage(w, st, GOALS_KEY)

addGoal(w, st, n, t, goal) ==
    LET newGoal == Spread(goal, [id        |-> uuidv4(n),
                                 createdAt |-> Str(toISOString(t))])
        goals   == Append(getGoals(w, st), newGoal)
    IN  [ret |-> newGoal,
         st |-> saveToStorage(w, st, GOALS_KEY, goals)]

\* Mutant: the goal is replaced by the updates instead of merged with them.
updateGoal_Replace(w, st, id, updates) ==
    LET goals == getGoals(w, st)
        index == findIndexOfId(goals, id)
    IN  IF index = -1
        THEN [ret |-> Null, st |-> st]
        ELSE LET goals2 == [goals EXCEPT ![index + 1] = updates]
             IN  [ret |-> updates,
                  st |-> saveToStorage(w, st, GOALS_KEY, goals2)]

updateGoal(w, st, id, updates) ==
    LET goals == getGoals(w, st)
        index == findIndexOfId(goals, id)
    IN  IF index = -1
        THEN [ret |-> Null, st |-> st]
        ELSE LET merged  == Spread(goals[index + 1], updates)
                 goals2  == [goals EXCEPT ![index + 1] = merged]
             IN  [ret |-> merged,
                  st |-> saveToStorage(w, st, GOALS_KEY, goals2)]

\* Mutant: nothing found is not told apart: the list is saved, true returned.
deleteGoal_NoCheck(w, st, id) ==
    LET goals         == getGoals(w, st)
        filteredGoals == SelectSeq(goals,
                                   LAMBDA goal : Field(goal, "id") # Str(id))
    IN  [ret |-> TRUE, st |-> saveToStorage(w, st, GOALS_KEY, filteredGoals)]

\* Mutant: splice(index) without a count: the goals from the match on go.
deleteGoal_SpliceToEnd(w, st, id) ==
    LET goals == getGoals(w, st)
        index == findIndexOfId(goals, id)
    IN  IF index = -1
        THEN [ret |-> FALSE, st |-> st]
        ELSE [ret |-> TRUE,
              st |-> saveToStorage(w, st, GOALS_KEY, SubSeq(goals, 1, index))]

deleteGoal(w, st, id) ==
    LET goals         == getGoals(w, st)
        filteredGoals == SelectSeq(goals,
                                   LAMBDA goal : Field(goal, "id") # Str(id))
    IN  IF Len(filteredGoals) = Len(goals)
        THEN [ret |-> FALSE, st |-> st]
        ELSE [ret |-> TRUE,
              st |-> saveToStorage(w, st, GOALS_KEY, filteredGoals)]

(***************************************************************************)
(* Sample data.  Math.random() is a draw from a stream: Rand(seed, k) is   *)
(* the k-th draw of stream `seed`, in percent (0 .. 99, for [0, 1)).       *)
(***************************************************************************)
Seeds == {0, 1, 2}

Rand(seed, k) ==
    CASE seed = 0 -> 0
      [] seed = 1 -> 99
      [] OTHER    -> (k * 37 + 13) % 100

ActivityTypes == <<"running", "walking", "cycling", "strength">>
Foods == <<"Oatmeal", "Chicken Salad", "Grilled Salmon", "Pasta", "Smoothie">>
Meals == <<"breakfast", "lunch", "dinner">>

\* Math.floor(Math.random() * len) for the draw r.
RandIndex(r, len) == (r * len) \div 100

\* One meal of one day: five draws from k on, one id.
SampleMeal(seed, k, n, dateStr, meal) ==
    [id       |-> uuidv4(n),
     date     |-> Str(dateStr),
     meal     |-> Str(meal),
     food     |-> Str(Foods[RandIndex(Rand(seed, k), 5) + 1]),
     calories |-> Num(Hundredths(300) + Rand(seed, k + 1) * 400),
     protein  |-> Num(Hundredths(20) + Rand(seed, k + 2) * 30),
     carbs    |-> Num(Hundredths(30) + Rand(seed, k + 3) * 50),
     fat      |-> Num(Hundredths(10) + Rand(seed, k + 4) * 20)]

\* The records the loop body makes for the date text dateStr, from the
\* accumulator a: a.n ids and a.k draws have been used so far.
SampleDayOn(seed, dateStr, a) ==
    LET weight  == [id |-> uuidv4(a.n + 1), date |-> Str(dateStr),
                    type |-> Str("weight"),
                    value |-> Num(Hundredths(70) + Rand(seed, a.k) * 5),
                    unit |-> Str("kg")]
        steps   == [id |-> uuidv4(a.n + 2), date |-> Str(dateStr),
                    type |-> Str("steps"),
                    value |-> Num(Hundredths(8000) + Rand(seed, a.k + 1) * 4000),
                    unit |-> Str("steps")]
        sleep   == [id |-> uuidv4(a.n + 3), date |-> Str(dateStr),
                    type |-> Str("sleep_hours"),
                    value |-> Num(Hundredths(6) + Rand(seed, a.k + 2) * 3),
                    unit |-> Str("hours")]
        active  == Rand(seed, a.k + 3) > 30
        act     == [id |-> uuidv4(a.n + 4), date |-> Str(dateStr),
                    type |-> Str(ActivityTypes[
                                 RandIndex(Rand(seed, a.k + 4), 4) + 1]),
                    duration |-> Num(Hundredths(30) + Rand(seed, a.k + 5) * 60),
                    calories |-> Num(Hundredths(200) + Rand(seed, a.k + 6) * 300)]
        n1      == IF active THEN a.n + 4 ELSE a.n + 3
        k1      == IF active THEN a.k + 7 ELSE a.k + 4
        meals   == [j \in 1..3 |->
                       SampleMeal(seed, k1 + 5 * (j - 1), n1 + j, dateStr,
                                  Meals[j])]
    IN  [metrics    |-> a.metrics \o <<weight, steps, sleep>>,
         activities |-> IF active THEN Append(a.activities, act)
                                  ELSE a.activities,
         nutrition  |-> a.nutrition \o meals,
         n          |-> n1 + 3,
         k          |-> k1 + 15]

\* The loop body for day `today - i`: the date i days back in local time,
\* written in UTC.
SampleDay(seed, t, h, zone, i, a) ==
    LET date    == setDateBack(zone, Instant(t, h), i)
        dateStr == ISODate(DayOfInstant(date))
    IN  SampleDayOn(seed, dateStr, a)

\* for (let i = 6; i >= 0; i--): the accumulator after the days i .. 0.
RECURSIVE SampleLoop(_, _, _, _, _, _)
SampleLoop(seed, t, h, zone, i, a) ==
    IF i < 0 THEN a
    ELSE SampleLoop(seed, t, h, zone, i - 1, SampleDay(seed, t, h, zone, i, a))

sampleGoals(t, n) ==
    << [id |-> uuidv4(n + 1), title |-> Str("Lose 5kg"), type |-> Str("weight"),
        target |-> Num(Hundredths(65)), current |-> Num(Hundredths(70)),
        unit |-> Str("kg"), deadline |-> Str(ISODate(t + 90)),
        createdAt |-> Str(toISOString(t))],
       [id |-> uuidv4(n + 2), title |-> Str("Walk 10,000 steps daily"),
        type |-> Str("steps"),
        target |-> Num(Hundredths(10000)), current |-> Num(Hundredths(8500)),
        unit |-> Str("steps"), deadline |-> Str(ISODate(t + 30)),
        createdAt |-> Str(toISOString(t))] >>

\* n: the ids generated before the call.  ids: the ids generated after it.
\* t, h: the clock's day and hour (UTC); zone: the local time zone.
generateSampleData(w, st, n, t, seed, h, zone) ==
    LET a  == SampleLoop(seed, t, h, zone, 6,
                         [metrics |-> <<>>, activities |-> <<>>,
                          nutrition |-> <<>>, n |-> n, k |-> 0])
        e1 == saveToStorage(w, st, HEALTH_METRICS_KEY, a.metrics)
        e2 == saveToStorage(w, e1, ACTIVITIES_KEY, a.activities)
        e3 == saveToStorage(w, e2, NUTRITION_ENTRIES_KEY, a.nutrition)
        e4 == saveToStorage(w, e3, GOALS_KEY, sampleGoals(t, a.n))
    IN  [st |-> e4, ids |-> a.n + 2]

(***************************************************************************)
(* The inputs explored.  Numbers are finite and texts are strings, as the  *)
(* pages' number and date inputs produce them; a date may be in the past.  *)
(***************************************************************************)
Today0 == DateStr(StartDay)
Past0 == DateStr(StartDay - 1)

MetricTypes == {"weight", "heart_rate"}

MetricInputs ==
    { [date |-> Str(Today0), value |-> Num(Hundredths(70)),
       type |-> Str("weight"), unit |-> Str("kg")],
      [date |-> Str(Past0), value |-> Num(Hundredths(72)),
       type |-> Str("weight"), unit |-> Str("kg")],
      [date |-> Str(Today0), value |-> Num(Hundredths(8000)),
       type |-> Str("steps"), unit |-> Str("steps")] }

NutritionInputs ==
    { [date |-> Str(Today0), meal |-> Str("breakfast"), food |-> Str("Oatmeal"),
       calories |-> Num(Hundredths(350)), protein |-> Num(Hundredths(12)),
       carbs |-> Num(Hundredths(60)), fat |-> Num(0)],
      [date |-> Str(Past0), meal |-> Str("snack"), food |-> Str("Apple"),
       calories |-> Num(Hundredths(95)), protein |-> Num(0),
       carbs |-> Num(Hundredths(25)), fat |-> Num(0)] }

ActivityInputs ==
    { [date |-> Str(Today0), type |-> Str("walking"),
       duration |-> Num(Hundredths(30)), calories |-> Num(Hundredths(150))],
      [date |-> Str(Past0), type |-> Str("running"),
       duration |-> Num(Hundredths(45)), calories |-> Num(Hundredths(400)),
       notes |-> Str("easy run")] }

GoalInputs ==
    { [title |-> Str("Reach 68kg"), type |-> Str("weight"),
       target |-> Num(Hundredths(68)), current |-> Num(0),
       unit |-> Str("kg"), deadline |-> Str(DateStr(StartDay + 30))],
      [title |-> Str("Sleep 8h"), type |-> Str("sleep"),
       target |-> Num(Hundredths(8)), current |-> Num(Hundredths(8)),
       unit |-> Str("hours"), deadline |-> Str(Past0)] }

\* The ids of the goals in storage, as strings.
StoredGoalIds(st) ==
    {Field(getGoals(TRUE, st)[i], "id").s : i \in 1..Len(getGoals(TRUE, st))}

NoSuchId == "no-such-id"

GoalIdInputs(st) == StoredGoalIds(st) \cup {NoSuchId}

\* Partial<Goal>: the progress update, the form's edit, and an id (one
\* that no goal has, and the id of the first stored goal).
UpdateInputs(st) ==
    { [current |-> Num(Hundredths(10000))],
      [title |-> Str("Edited"), target |-> Num(Hundredths(66)),
       deadline |-> Str(DateStr(StartDay + 60))],
      [id |-> Str("renamed")] }
    \cup {[id |-> Field(getGoals(TRUE, st)[i], "id")] :
             i \in 1..(IF Len(getGoals(TRUE, st)) > 0 THEN 1 ELSE 0)}

(***************************************************************************)
(* The state after construction.  The module runs in the browser (window   *)
(* defined) or on the server (not defined), and browser storage outlives   *)
(* the page: it holds what earlier sessions left.  Three such storages     *)
(* are explored: nothing; the sample data plus a goal of the user's; and   *)
(* the entries of a user who has used the nutrition, activities and goals  *)
(* pages but has never opened the dashboard.  The server is explored with  *)
(* the second, which has all four collections filled.                      *)
(***************************************************************************)
EmptyStorage == [k \in Keys |-> NoItem]

Seeded ==
    LET a == generateSampleData(TRUE, EmptyStorage, 0, StartDay, 2, 12, "UTC")
        b == addGoal(TRUE, a.st, a.ids + 1, StartDay,
                     [title |-> Str("Drink water"), type |-> Str("water"),
                      target |-> Num(Hundredths(2)), current |-> Num(0),
                      unit |-> Str("L"), deadline |-> Str(Today0)])
    IN  [st |-> b.st, ids |-> a.ids + 1]

Visited ==
    LET a == addNutritionEntry(TRUE, EmptyStorage, 1,
                 [date |-> Str(Today0), meal |-> Str("lunch"),
                  food |-> Str("Pasta"), calories |-> Num(Hundredths(600)),
                  protein |-> Num(Hundredths(20)),
                  carbs |-> Num(Hundredths(80)), fat |-> Num(Hundredths(15))])
        b == addActivity(TRUE, a.st, 2,
                 [date |-> Str(Past0), type |-> Str("yoga"),
                  duration |-> Num(Hundredths(60)),
                  calories |-> Num(Hundredths(180)), notes |-> Str("")])
        c == addGoal(TRUE, b.st, 3, StartDay - 1,
                 [title |-> Str("Run 5k"), type |-> Str("exercise"),
                  target |-> Num(Hundredths(5)), current |-> Num(0),
                  unit |-> Str("km"), deadline |-> Str(DateStr(StartDay + 30))])
        d == addGoal(TRUE, c.st, 4, StartDay,
                 [title |-> Str("Eat greens"), type |-> Str("nutrition"),
                  target |-> Num(Hundredths(5)), current |-> Num(Hundredths(5)),
                  unit |-> Str("servings"), deadline |-> Str(Past0)])
    IN  [st |-> d.st, ids |-> 4]

(***************************************************************************)
(* The record of a call.  What a call returns is one of: an array, an      *)
(* object, null, a boolean, nothing.  `arr` holds the array, or the one    *)
(* object.  What it was given is a string (a type, an id), objects (the    *)
(* input record, the updates) and a number (the random stream).            *)
(***************************************************************************)
RetArray(a) == [kind |-> "array", arr |-> a]
RetObject(o) == [kind |-> "object", arr |-> <<o>>]
RetNull == [kind |-> "null", arr |-> <<>>]
RetBool(b) == [kind |-> IF b THEN "true" ELSE "false", arr |-> <<>>]
RetVoid == [kind |-> "undefined", arr |-> <<>>]

\* A function's result that is an object or null.
RetObjectOrNull(r) == IF r = Null THEN RetNull ELSE RetObject(r)

Arg(s, objs, n) == [s |-> s, objs |-> objs, n |-> n]
NoArg == Arg("", <<>>, 0)

\* No call has completed since the runtime started or the day changed.
NoCall == [op |-> "none", arg |-> NoArg, ret |-> RetVoid]

\* No tab is open beside this one, and the Goals page is not open.
NoTabs == <<>>
NoPage == [open |-> FALSE]

\* What the runtime finds: w (window defined), st (storage), ids (used).
InitRuntimes ==
    { [w |-> TRUE, st |-> EmptyStorage, ids |-> 0],
      [w |-> TRUE, st |-> Seeded.st, ids |-> Seeded.ids],
      [w |-> TRUE, st |-> Visited.st, ids |-> Visited.ids],
      [w |-> FALSE, st |-> Seeded.st, ids |-> Seeded.ids] }

Init ==
    /\ \E r \in InitRuntimes :
          window = r.w /\ storage = r.st /\ uuid = r.ids
    /\ now = StartDay
    /\ calls = 0
    /\ dashboard = [mounted |-> FALSE, healthMetrics |-> <<>>,
                    todaysActivities |-> <<>>, todaysNutrition |-> <<>>,
                    goals |-> <<>>]
    /\ last = NoCall
    /\ timeZone = "UTC"
    /\ hour = 12
    /\ tabs = NoTabs
    /\ goalsPage = NoPage
    /\ opener = "none"
    /\ screen = NoPage

\* A call completes: its effect on storage, and the record of it.
Complete(op, arg, ret, st) ==
    /\ storage' = st
    /\ last' = [op |-> op, arg |-> arg, ret |-> ret]

MayWrite == calls < MaxCalls

(***************************************************************************)
(* The operations of the data-access module, one action per exported      *)
(* function, called in the browser or on the server.                       *)
(***************************************************************************)
GetHealthMetrics ==
    /\ Complete("getHealthMetrics", NoArg,
                RetArray(getHealthMetrics(window, storage)), storage)
    /\ UNCHANGED <<env, views, now, uuid, calls, dashboard>>

GetNutritionEntries ==
    /\ Complete("getNutritionEntries", NoArg,
                RetArray(getNutritionEntries(window, storage)), storage)
    /\ UNCHANGED <<env, views, now, uuid, calls, dashboard>>

GetActivities ==
    /\ Complete("getActivities", NoArg,
                RetArray(getActivities(window, storage)), storage)
    /\ UNCHANGED <<env, views, now, uuid, calls, dashboard>>

GetGoals ==
    /\ Complete("getGoals", NoArg, RetArray(getGoals(window, storage)), storage)
    /\ UNCHANGED <<env, views, now, uuid, calls, dashboard>>

GetLatestMetric ==
    \E type \in MetricTypes :
        /\ Complete("getLatestMetric", Arg(type, <<>>, 0),
                    RetObjectOrNull(getLatestMetric(window, storage, type)),
                    storage)
        /\ UNCHANGED <<env, views, now, uuid, calls, dashboard>>

GetTodaysNutrition ==
    /\ Complete("getTodaysNutrition", NoArg,
                RetArray(getTodaysNutrition(window, storage, now)), storage)
    /\ UNCHANGED <<env, views, now, uuid, calls, dashboard>>

GetTodaysActivities ==
    /\ Complete("getTodaysActivities", NoArg,
                RetArray(getTodaysActivities(window, storage, now)), storage)
    /\ UNCHANGED <<env, views, now, uuid, calls, dashboard>>

AddHealthMetric ==
    \E metric \in MetricInputs :
        LET r == addHealthMetric(window, storage, uuid + 1, metric)
        IN  /\ MayWrite
            /\ Complete("addHealthMetric", Arg("", <<metric>>, 0),
                        RetObject(r.ret), r.st)
            /\ uuid' = uuid + 1
            /\ calls' = calls + 1
            /\ UNCHANGED <<env, views, now, dashboard>>

AddNutritionEntry ==
    \E entry \in NutritionInputs :
        LET r == addNutritionEntry(window, storage, uuid + 1, entry)
        IN  /\ MayWrite
            /\ Complete("addNutritionEntry", Arg("", <<entry>>, 0),
                        RetObject(r.ret), r.st)
            /\ uuid' = uuid + 1
            /\ calls' = calls + 1
            /\ UNCHANGED <<env, views, now, dashboard>>

AddActivity ==
    \E activity \in ActivityInputs :
        LET r == addActivity(window, storage, uuid + 1, activity)
        IN  /\ MayWrite
            /\ Complete("addActivity", Arg("", <<activity>>, 0),
                        RetObject(r.ret), r.st)
            /\ uuid' = uuid + 1
            /\ calls' = calls + 1
            /\ UNCHANGED <<env, views, now, dashboard>>

AddGoal ==
    \E goal \in GoalInputs :
        LET r == addGoal(window, storage, uuid + 1, now, goal)
        IN  /\ MayWrite
            /\ Complete("addGoal", Arg("", <<goal>>, 0),
                        RetObject(r.ret), r.st)
            /\ uuid' = uuid + 1
            /\ calls' = calls + 1
            /\ UNCHANGED <<env, views, now, dashboard>>

UpdateGoal ==
    /\ MayWrite
    /\ \E id \in GoalIdInputs(storage), updates \in UpdateInputs(storage) :
        LET r == updateGoal(window, storage, id, updates)
        IN  /\ Complete("updateGoal", Arg(id, <<updates>>, 0),
                        RetObjectOrNull(r.ret), r.st)
            /\ calls' = calls + 1
            /\ UNCHANGED <<env, views, now, uuid, dashboard>>

DeleteGoal ==
    /\ MayWrite
    /\ \E id \in GoalIdInputs(storage) :
        LET r == deleteGoal(window, storage, id)
        IN  /\ Complete("deleteGoal", Arg(id, <<>>, 0), RetBool(r.ret), r.st)
            /\ calls' = calls + 1
            /\ UNCHANGED <<env, views, now, uuid, dashboard>>

GenerateSampleData ==
    \E seed \in Seeds :
        LET r == generateSampleData(window, storage, uuid, now, seed,
                                    hour, timeZone)
        IN  /\ MayWrite
            /\ Complete("generateSampleData", Arg("", <<>>, seed), RetVoid,
                        r.st)
            /\ uuid' = r.ids
            /\ calls' = calls + 1
            /\ UNCHANGED <<env, views, now, dashboard>>

(***************************************************************************)
(* The Dashboard page's mount effect (effects run in the browser only):    *)
(* seed when no health metric is stored, then load the page's lists.       *)
(***************************************************************************)
loadData(st, t) ==
    [mounted          |-> TRUE,
     healthMetrics    |-> getHealthMetrics(TRUE, st),
     todaysActivities |-> getTodaysActivities(TRUE, st, t),
     todaysNutrition  |-> getTodaysNutrition(TRUE, st, t),
     goals            |-> getGoals(TRUE, st)]

\* A variant that seeds whenever the goals are fewer than three.
DashboardEffect_ChecksGoals(st, n, t, seed, h, zone) ==
    LET existingGoals == getGoals(TRUE, st)
        g             == generateSampleData(TRUE, st, n, t, seed, h, zone)
    IN  IF Len(existingGoals) < 3
        THEN [st |-> g.st, ids |-> g.ids, seeded |-> TRUE]
        ELSE [st |-> st, ids |-> n, seeded |-> FALSE]

DashboardEffect(st, n, t, seed, h, zone) ==
    LET existingMetrics == getHealthMetrics(TRUE, st)
        g               == generateSampleData(TRUE, st, n, t, seed, h, zone)
    IN  IF Len(existingMetrics) = 0
        THEN [st |-> g.st, ids |-> g.ids, seeded |-> TRUE]
        ELSE [st |-> st, ids |-> n, seeded |-> FALSE]

DashboardMount ==
    \E seed \in Seeds :
        LET r == DashboardEffect(storage, uuid, now, seed, hour, timeZone)
        IN  /\ window
            /\ MayWrite
            /\ Complete("DashboardMount", Arg("", <<>>, seed), RetVoid, r.st)
            /\ dashboard' = loadData(r.st, now)
            /\ uuid' = r.ids
            /\ calls' = calls + 1
            /\ UNCHANGED <<env, views, now>>

\* The effect runs again for a page that has mounted before: a second run
\* right after the first, or a later visit of the page.
DashboardRemount ==
    \E seed \in Seeds :
        LET r == DashboardEffect(storage, uuid, now, seed, hour, timeZone)
        IN  /\ window
            /\ dashboard.mounted
            /\ Complete("DashboardRemount", Arg("", <<>>, seed), RetVoid, r.st)
            /\ dashboard' = loadData(r.st, now)
            /\ uuid' = r.ids
            /\ UNCHANGED <<env, views, now, calls>>

\* A day passes between two calls.
Tick ==
    /\ now < StartDay + MaxTicks
    /\ now' = now + 1
    /\ last' = NoCall
    /\ UNCHANGED <<env, views, storage, uuid, calls, dashboard>>

Next ==
    \/ GetHealthMetrics
    \/ GetNutritionEntries
    \/ GetActivities
    \/ GetGoals
    \/ GetLatestMetric
    \/ GetTodaysNutrition
    \/ GetTodaysActivities
    \/ AddHealthMetric
    \/ AddNutritionEntry
    \/ AddActivity
    \/ AddGoal
    \/ UpdateGoal
    \/ DeleteGoal
    \/ GenerateSampleData
    \/ DashboardMount
    \/ DashboardRemount
    \/ Tick

Spec == Init /\ [][Next]_vars

(***************************************************************************)
(* Vocabulary of the properties.                                           *)
(***************************************************************************)
\* What is stored under a key, as the browser reads it.
Stored(st, key) == getFromStorage(TRUE, st, key)

\* The step is a completed call of `op` that may write.
Called(op) == last'.op = op /\ calls' = calls + 1

\* The step is a completed query `op`.
Queried(op) == last'.op = op /\ now' = now /\ calls' = calls

\* sub is the elements of all that satisfy Keep, in the order of all.
OrderedSelection(sub, all, Keep(_)) ==
    LET kept == {i \in 1..Len(all) : Keep(all[i])}
    IN  /\ Len(sub) = Cardinality(kept)
        /\ \A i \in kept : sub[Cardinality({j \in kept : j <= i})] = all[i]

\* The add operations: name, key, the fields the operation itself sets.
AddOps ==
    { [op |-> "addHealthMetric", key |-> HEALTH_METRICS_KEY, sets |-> {"id"}],
      [op |-> "addNutritionEntry", key |-> NUTRITION_ENTRIES_KEY,
       sets |-> {"id"}],
      [op |-> "addActivity", key |-> ACTIVITIES_KEY, sets |-> {"id"}],
      [op |-> "addGoal", key |-> GOALS_KEY, sets |-> {"id", "createdAt"}] }

\* The queries that return an array, and the key each reads.
ArrayQueries ==
    { [op |-> "getHealthMetrics", key |-> HEALTH_METRICS_KEY],
      [op |-> "getNutritionEntries", key |-> NUTRITION_ENTRIES_KEY],
      [op |-> "getActivities", key |-> ACTIVITIES_KEY],
      [op |-> "getGoals", key |-> GOALS_KEY],
      [op |-> "getTodaysNutrition", key |-> NUTRITION_ENTRIES_KEY],
      [op |-> "getTodaysActivities", key |-> ACTIVITIES_KEY] }

WriteOps ==
    {"addHealthMetric", "addNutritionEntry", "addActivity", "addGoal",
     "updateGoal", "deleteGoal", "generateSampleData"}

(***************************************************************************)
(* C1.  In the browser, each add operation appends exactly one record to   *)
(* its collection: afterwards the collection is the previous list followed *)
(* by the record the add returned; that record has the input's fields      *)
(* unchanged, plus an id no stored record of the collection had (and, for  *)
(* a goal, createdAt, the current timestamp).                              *)
(***************************************************************************)
C1_AddAppendsOne ==
    [][\A a \in AddOps :
         (Called(a.op) /\ window) =>
            LET input  == last'.arg.objs[1]
                record == last'.ret.arr[1]
                before == Stored(storage, a.key)
            IN  /\ Stored(storage', a.key) = Append(before, record)
                /\ DOMAIN record = (DOMAIN input) \cup a.sets
                /\ \A f \in DOMAIN input : record[f] = input[f]
                /\ \A i \in 1..Len(before) : Field(before[i], "id") # record.id
                /\ a.op = "addGoal" => record.createdAt = Str(toISOString(now))
      ]_vars

\* An add has appended to a list that already held records.
C1_Witness ==
    /\ window
    /\ last.op = "addActivity"
    /\ Len(Stored(storage, ACTIVITIES_KEY)) >= 2
    /\ Stored(storage, ACTIVITIES_KEY)[Len(Stored(storage, ACTIVITIES_KEY))]
         = last.ret.arr[1]

(***************************************************************************)
(* C2.  Without a window every array query returns the empty array and     *)
(* every add, update, delete and seed leaves storage as it was; with a     *)
(* window, a query of a key that was never written returns the empty       *)
(* array.                                                                  *)
(***************************************************************************)
C2_NoStorageNoEffect ==
    [][/\ \A q \in ArrayQueries :
            (Queried(q.op) /\ (~window \/ ~storage[q.key].present))
               => last'.ret = RetArray(<<>>)
       /\ (~window /\ last'.op \in WriteOps) => storage' = storage
      ]_vars

\* On the server, a query of a collection that holds records returned none.
C2_Witness ==
    /\ ~window
    /\ last.op = "getGoals"
    /\ storage[GOALS_KEY].present
    /\ Len(storage[GOALS_KEY].json) > 0
    /\ last.ret = RetArray(<<>>)

(***************************************************************************)
(* C3.  getLatestMetric(type) returns null exactly when no stored metric   *)
(* has the type, and otherwise a stored metric of the type whose date is   *)
(* not earlier than the date of any other stored metric of the type.       *)
(***************************************************************************)
\* The day number of a YYYY-MM-DD text among the days metrics are dated.
DayOf(date) ==
    CHOOSE d \in (StartDay - 7)..(StartDay + MaxTicks) : DateStr(d) = date.s

C3_LatestByDate ==
    (window /\ last.op = "getLatestMetric") =>
        LET all    == Stored(storage, HEALTH_METRICS_KEY)
            ofType == {i \in 1..Len(all) :
                          Field(all[i], "type") = Str(last.arg.s)}
        IN  /\ (last.ret = RetNull) <=> (ofType = {})
            /\ ofType # {} =>
                 /\ last.ret.kind = "object"
                 /\ \E i \in ofType :
                      /\ all[i] = last.ret.arr[1]
                      /\ \A j \in ofType :
                           DayOf(all[i].date) >= DayOf(all[j].date)

(***************************************************************************)
(* C4.  In the browser, getTodaysNutrition and getTodaysActivities return  *)
(* exactly the stored records of their collection whose date is today's    *)
(* date, in storage order, and leave storage as it was.                    *)
(***************************************************************************)
C4_TodaysEntries ==
    [][\A q \in {[op |-> "getTodaysNutrition", key |-> NUTRITION_ENTRIES_KEY],
                 [op |-> "getTodaysActivities", key |-> ACTIVITIES_KEY]} :
         (Queried(q.op) /\ window) =>
            /\ storage' = storage
            /\ last'.ret.kind = "array"
            /\ OrderedSelection(last'.ret.arr, Stored(storage, q.key),
                   LAMBDA r : Field(r, "date") = Str(DateStr(now)))
      ]_vars

\* The query returned some of the stored entries and left others out.
C4_Witness ==
    /\ window
    /\ last.op = "getTodaysNutrition"
    /\ Len(last.ret.arr) >= 2
    /\ Len(last.ret.arr) < Len(Stored(storage, NUTRITION_ENTRIES_KEY))

(***************************************************************************)
(* C5.  updateGoal and deleteGoal with an id that no stored goal has       *)
(* return null and false, and leave every collection as it was.            *)
(***************************************************************************)
GoalHasId(st, id) ==
    \E i \in 1..Len(Stored(st, GOALS_KEY)) :
        Field(Stored(st, GOALS_KEY)[i], "id") = Str(id)

C5_UnknownIdIsReported ==
    [][/\ (Called("updateGoal") /\ ~GoalHasId(storage, last'.arg.s))
            => (last'.ret = RetNull /\ storage' = storage)
       /\ (Called("deleteGoal") /\ ~GoalHasId(storage, last'.arg.s))
            => (last'.ret = RetBool(FALSE) /\ storage' = storage)
      ]_vars

\* A delete of an unknown id, with goals stored, returned false.
C5_Witness ==
    /\ window
    /\ last.op = "deleteGoal"
    /\ last.arg.s = NoSuchId
    /\ Len(Stored(storage, GOALS_KEY)) >= 2
    /\ last.ret = RetBool(FALSE)

(***************************************************************************)
(* C6.  In the browser, updateGoal(id, updates) with the id of a stored    *)
(* goal replaces the first goal with that id by that goal with the fields  *)
(* of updates overwritten, returns the merged goal, and leaves the number  *)
(* of goals, their order and every other goal as they were.                *)
(***************************************************************************)
C6_UpdateMerges ==
    [][(Called("updateGoal") /\ window /\ GoalHasId(storage, last'.arg.s)) =>
         LET before  == Stored(storage, GOALS_KEY)
             after   == Stored(storage', GOALS_KEY)
             updates == last'.arg.objs[1]
             hits    == {i \in 1..Len(before) :
                            Field(before[i], "id") = Str(last'.arg.s)}
             first   == CHOOSE i \in hits : \A j \in hits : i <= j
             merged  == [f \in (DOMAIN before[first]) \cup (DOMAIN updates) |->
                            IF f \in DOMAIN updates THEN updates[f]
                                                    ELSE before[first][f]]
         IN  /\ Len(after) = Len(before)
             /\ \A i \in 1..Len(before) :
                   after[i] = IF i = first THEN merged ELSE before[i]
             /\ last'.ret = RetObject(merged)
      ]_vars

\* The form's edit was merged into one of several stored goals.
C6_Witness ==
    /\ window
    /\ last.op = "updateGoal"
    /\ last.ret.kind = "object"
    /\ "title" \in DOMAIN last.arg.objs[1]
    /\ Len(Stored(storage, GOALS_KEY)) >= 2
    /\ \E i \in 1..Len(Stored(storage, GOALS_KEY)) :
          /\ Stored(storage, GOALS_KEY)[i] = last.ret.arr[1]
          /\ Stored(storage, GOALS_KEY)[i].title = Str("Edited")

(***************************************************************************)
(* C7.  In the browser, deleteGoal(id) with the id of a stored goal        *)
(* returns true; afterwards no stored goal has that id, and the goals with *)
(* another id are all there, unchanged and in the same relative order.     *)
(***************************************************************************)
C7_DeleteRemovesOnlyThatId ==
    [][(Called("deleteGoal") /\ window /\ GoalHasId(storage, last'.arg.s)) =>
         /\ last'.ret = RetBool(TRUE)
         /\ ~GoalHasId(storage', last'.arg.s)
         /\ OrderedSelection(Stored(storage', GOALS_KEY),
                             Stored(storage, GOALS_KEY),
                             LAMBDA g : Field(g, "id") # Str(last'.arg.s))
      ]_vars

\* A delete returned true and other goals are still stored.
C7_Witness ==
    /\ window
    /\ last.op = "deleteGoal"
    /\ last.ret = RetBool(TRUE)
    /\ Len(Stored(storage, GOALS_KEY)) >= 2
    /\ ~GoalHasId(storage, last.arg.s)

(***************************************************************************)
(* C8.  Under addGoal, updateGoal and deleteGoal calls, a stored goal with *)
(* id g is still stored with id g after every call but deleteGoal(g).      *)
(***************************************************************************)
C8_TrackedUntilDeleted ==
    [][(window /\ (Called("addGoal") \/ Called("updateGoal")
                     \/ Called("deleteGoal"))) =>
         \A g \in StoredGoalIds(storage) :
            \/ g \in StoredGoalIds(storage')
            \/ last'.op = "deleteGoal" /\ last'.arg.s = g
      ]_vars

(***************************************************************************)
(* C9.  A record that is in one of the four collections when the dashboard *)
(* mounts is still in that collection after the mount.                     *)
(***************************************************************************)
C9_MountKeepsRecords ==
    [][Called("DashboardMount") =>
         \A key \in Keys :
            \A i \in 1..Len(Stored(storage, key)) :
               \E j \in 1..Len(Stored(storage', key)) :
                  Stored(storage', key)[j] = Stored(storage, key)[i]
      ]_vars

(***************************************************************************)
(* The storage functions on their own: saveToStorage and getFromStorage    *)
(* applied to arrays of records, among them records that hold a number     *)
(* that is not finite or a member that is undefined.                       *)
(***************************************************************************)
PlainMetric ==
    [id |-> Str("m-1"), date |-> Str(Today0), value |-> Num(7050),
     type |-> Str("weight"), unit |-> Str("kg")]

PlainEntry ==
    [id |-> Str("e-1"), date |-> Str(Past0), meal |-> Str("snack"),
     food |-> Str(""), calories |-> Num(0), protein |-> Num(-150),
     carbs |-> Num(Hundredths(12)), fat |-> Num(1)]

NaNMetric ==
    [id |-> Str("m-2"), date |-> Str(Today0), value |-> NaN,
     type |-> Str("steps"), unit |-> Str("steps")]

UndefinedNotes ==
    [id |-> Str("a-1"), date |-> Str(Today0), type |-> Str("yoga"),
     duration |-> Num(Hundredths(20)), calories |-> Infinity,
     notes |-> Undefined]

ArrayInputs ==
    { <<>>, <<PlainMetric>>, <<PlainEntry, PlainMetric>>,
      <<PlainMetric, PlainEntry>>, <<PlainMetric, PlainMetric, PlainEntry>>,
      <<NaNMetric>>, <<PlainMetric, UndefinedNotes>> }

InitIO ==
    /\ window \in BOOLEAN
    /\ storage = EmptyStorage
    /\ uuid = 0
    /\ now = StartDay
    /\ calls = 0
    /\ dashboard = [mounted |-> FALSE, healthMetrics |-> <<>>,
                    todaysActivities |-> <<>>, todaysNutrition |-> <<>>,
                    goals |-> <<>>]
    /\ last = NoCall
    /\ timeZone = "UTC"
    /\ hour = 12
    /\ tabs = NoTabs
    /\ goalsPage = NoPage
    /\ opener = "none"
    /\ screen = NoPage

SaveToStorage ==
    \E key \in Keys, data \in ArrayInputs :
        /\ MayWrite
        /\ Complete("saveToStorage", Arg(key, data, 0), RetVoid,
                    saveToStorage(window, storage, key, data))
        /\ calls' = calls + 1
        /\ UNCHANGED <<env, views, now, uuid, dashboard>>

GetFromStorage ==
    \E key \in Keys :
        /\ Complete("getFromStorage", Arg(key, <<>>, 0),
                    RetArray(getFromStorage(window, storage, key)), storage)
        /\ UNCHANGED <<env, views, now, uuid, calls, dashboard>>

NextIO ==
    \/ SaveToStorage
    \/ GetFromStorage

SpecIO == InitIO /\ [][NextIO]_vars

\* Every member of every record is a string or a finite number.
AllPlain(data) ==
    \A i \in 1..Len(data) :
        \A f \in DOMAIN data[i] : data[i][f].t \in {"num", "str"}

C13_SeededAtMostOnce ==
    [][(window /\ Len(Stored(storage, HEALTH_METRICS_KEY)) > 0) =>
         /\ Len(Stored(storage', HEALTH_METRICS_KEY)) > 0
         /\ last'.op \in {"DashboardMount", "DashboardRemount"}
               => (storage' = storage /\ uuid' = uuid)
      ]_vars

\* The effect has run again after a run that seeded, and the page shows
\* the sample data of the first run.
C13_Witness ==
    /\ window
    /\ last.op = "DashboardRemount"
    /\ Len(Stored(storage, HEALTH_METRICS_KEY)) = 21
    /\ Len(Stored(storage, GOALS_KEY)) = 2
    /\ dashboard.healthMetrics = Stored(storage, HEALTH_METRICS_KEY)

(***************************************************************************)
(* C14.  In the browser, getLatestMetric(type), when a stored metric has   *)
(* the type, returns the one among them that stands last in storage (the   *)
(* one appended last), whatever the dates are.                             *)
(***************************************************************************)
C14_LatestByInsertion ==
    [][(Queried("getLatestMetric") /\ window) =>
         LET all    == Stored(storage, HEALTH_METRICS_KEY)
             ofType == {i \in 1..Len(all) :
                           Field(all[i], "type") = Str(last'.arg.s)}
             latest == CHOOSE i \in ofType : \A j \in ofType : j <= i
         IN  ofType # {} => last'.ret = RetObject(all[latest])
      ]_vars

\* The metric returned is dated before another stored metric of its type.
C14_Witness ==
    /\ window
    /\ last.op = "getLatestMetric"
    /\ last.ret.kind = "object"
    /\ \E i \in 1..Len(Stored(storage, HEALTH_METRICS_KEY)) :
          LET m == Stored(storage, HEALTH_METRICS_KEY)[i]
          IN  /\ m.type = last.ret.arr[1].type
              /\ DayOf(m.date) > DayOf(last.ret.arr[1].date)

(***************************************************************************)
(* C15.  Each add, update and delete writes its own collection only: the   *)
(* three other collections are as they were; and every query leaves all    *)
(* four collections as they were.                                          *)
(***************************************************************************)
\* The operations that write one collection, and its key.
OwnKey ==
    [addHealthMetric   |-> HEALTH_METRICS_KEY,
     addNutritionEntry |-> NUTRITION_ENTRIES_KEY,
     addActivity       |-> ACTIVITIES_KEY,
     addGoal           |-> GOALS_KEY,
     updateGoal        |-> GOALS_KEY,
     deleteGoal        |-> GOALS_KEY]

QueryOps ==
    {q.op : q \in ArrayQueries} \cup {"getLatestMetric"}

C15_WritesOwnCollectionOnly ==
    [][/\ \A op \in DOMAIN OwnKey :
            Called(op) =>
               \A key \in Keys \ {OwnKey[op]} : storage'[key] = storage[key]
       /\ \A op \in QueryOps : Queried(op) => storage' = storage
      ]_vars

\* An entry was added while the other collections held records.
C15_Witness ==
    /\ window
    /\ last.op = "addNutritionEntry"
    /\ Len(Stored(storage, NUTRITION_ENTRIES_KEY)) >= 2
    /\ Len(Stored(storage, ACTIVITIES_KEY)) >= 1
    /\ Len(Stored(storage, GOALS_KEY)) >= 1

(***************************************************************************)
(* C16.  In the browser, in storage whose goals were all made by addGoal   *)
(* (no sample data), no two stored goals have the same id.                 *)
(***************************************************************************)
C16_GoalIdsUnique ==
    (window /\ ~storage[HEALTH_METRICS_KEY].present) =>
        \A i, j \in 1..Len(Stored(storage, GOALS_KEY)) :
            (Field(Stored(storage, GOALS_KEY)[i], "id")
               = Field(Stored(storage, GOALS_KEY)[j], "id")) => i = j

(***************************************************************************)
(* Sample-data generation on its own: generateSampleData called in the     *)
(* browser at different hours of the day and in different time zones, on   *)
(* storage that is empty or holds records, followed by the queries.        *)
(***************************************************************************)
Hours == {0, 12, 23}

InitSeed ==
    /\ \E r \in {x \in InitRuntimes : x.w} :
          window = r.w /\ storage = r.st /\ uuid = r.ids
    /\ timeZone \in TimeZones
    /\ hour \in Hours
    /\ now = StartDay
    /\ calls = 0
    /\ dashboard = [mounted |-> FALSE, healthMetrics |-> <<>>,
                    todaysActivities |-> <<>>, todaysNutrition |-> <<>>,
                    goals |-> <<>>]
    /\ last = NoCall
    /\ tabs = NoTabs
    /\ goalsPage = NoPage
    /\ opener = "none"
    /\ screen = NoPage

NextSeed ==
    \/ GenerateSampleData
    \/ GetHealthMetrics
    \/ GetNutritionEntries
    \/ GetActivities
    \/ GetGoals
    \/ Tick

SpecSeed == InitSeed /\ [][NextSeed]_vars

\* How many records of the list have the date and, under `field`, the
\* value.
MetricsOfType(list, date, field, value) ==
    Cardinality({i \in 1..Len(list) :
                    /\ Field(list[i], "date") = Str(date)
                    /\ Field(list[i], field) = Str(value)})

\* No record of `old` is in `new`.
Replaced(old, new) ==
    \A i \in 1..Len(old) : \A j \in 1..Len(new) : old[i] # new[j]

(***************************************************************************)
(* C12.  In the browser, generateSampleData replaces the four collections  *)
(* by: 21 health metrics, one weight, one steps and one sleep_hours for    *)
(* each of the 7 days that end today; 21 nutrition entries, a breakfast, a *)
(* lunch and a dinner for each of these days; at most one activity for     *)
(* each of these days and none of another day; 2 goals.  Today is the date *)
(* of the current ISO timestamp.                                           *)
(***************************************************************************)
C12_SevenDaysOfSamples ==
    [][(Called("generateSampleData") /\ window) =>
         LET metrics    == Stored(storage', HEALTH_METRICS_KEY)
             nutrition  == Stored(storage', NUTRITION_ENTRIES_KEY)
             activities == Stored(storage', ACTIVITIES_KEY)
             goals      == Stored(storage', GOALS_KEY)
             days       == {DateStr(d) : d \in (now - 6)..now}
         IN  /\ \A key \in Keys :
                    Replaced(Stored(storage, key), Stored(storage', key))
             /\ Len(metrics) = 21
             /\ \A day \in days :
                   \A type \in {"weight", "steps", "sleep_hours"} :
                      MetricsOfType(metrics, day, "type", type) = 1
             /\ Len(nutrition) = 21
             /\ \A day \in days :
                   \A meal \in {"breakfast", "lunch", "dinner"} :
                      MetricsOfType(nutrition, day, "meal", meal) = 1
             /\ Len(activities) <= 7
             /\ \A i \in 1..Len(activities) :
                   /\ activities[i].date.s \in days
                   /\ \A j \in 1..Len(activities) :
                         activities[i].date = activities[j].date => i = j
             /\ Len(goals) = 2
      ]_vars

(***************************************************************************)
(* Two tabs of the browser on the same storage.  Each tab runs its own     *)
(* script; localStorage gives no atomicity over a getItem and the setItem  *)
(* that follows it, so a call of one tab may run between the two steps of  *)
(* an add of the other tab: the read of the stored list (and the making    *)
(* of the new list), and the write of the new list.                        *)
(***************************************************************************)
MaxAdds == 1    \* how many adds each tab makes

Tabs == {1, 2}

IdleTab == [pc |-> "idle", item |-> NoItem, newMetric |-> Null,
            returned |-> <<>>]

InitTabs ==
    /\ \E r \in {x \in InitRuntimes : x.w} :
          window = r.w /\ storage = r.st /\ uuid = r.ids
    /\ timeZone = "UTC"
    /\ hour = 12
    /\ now = StartDay
    /\ calls = 0
    /\ dashboard = [mounted |-> FALSE, healthMetrics |-> <<>>,
                    todaysActivities |-> <<>>, todaysNutrition |-> <<>>,
                    goals |-> <<>>]
    /\ last = NoCall
    /\ tabs = [tab \in Tabs |-> IdleTab]
    /\ goalsPage = NoPage
    /\ opener = "none"
    /\ screen = NoPage

\* addHealthMetric up to its saveToStorage: the tab has read the list and
\* made the new metric and the text it is going to store.
TabAddRead(tab) ==
    \E metric \in MetricInputs :
        LET r == addHealthMetric(window, storage, uuid + 1, metric)
        IN  /\ tabs[tab].pc = "idle"
            /\ Len(tabs[tab].returned) < MaxAdds
            /\ tabs' = [tabs EXCEPT ![tab].pc = "read",
                                    ![tab].item = r.st[HEALTH_METRICS_KEY],
                                    ![tab].newMetric = r.ret]
            /\ uuid' = uuid + 1
            /\ UNCHANGED <<env, storage, now, calls, dashboard, last,
                           goalsPage, opener, screen>>

\* The rest of addHealthMetric: the text is stored, the metric returned.
TabAddWrite(tab) ==
    /\ tabs[tab].pc = "read"
    /\ Complete("addHealthMetric", Arg("", <<>>, tab),
                RetObject(tabs[tab].newMetric),
                [storage EXCEPT ![HEALTH_METRICS_KEY] = tabs[tab].item])
    /\ tabs' = [tabs EXCEPT
                  ![tab].pc = "idle",
                  ![tab].returned = Append(@, tabs[tab].newMetric)]
    /\ UNCHANGED <<env, now, uuid, calls, dashboard, goalsPage, opener,
                   screen>>

NextTabs ==
    \/ \E tab \in Tabs : TabAddRead(tab)
    \/ \E tab \in Tabs : TabAddWrite(tab)

SpecTabs == InitTabs /\ [][NextTabs]_vars

(***************************************************************************)
(* C11.  When no add is under way in either tab, every metric that an add  *)
(* has returned is in the stored collection.                               *)
(***************************************************************************)
C11_NoAddIsLost ==
    (\A tab \in Tabs : tabs[tab].pc = "idle") =>
        \A tab \in Tabs :
            \A i \in 1..Len(tabs[tab].returned) :
                \E j \in 1..Len(Stored(storage, HEALTH_METRICS_KEY)) :
                    Stored(storage, HEALTH_METRICS_KEY)[j]
                      = tabs[tab].returned[i]

(***************************************************************************)
(* The Goals page (GoalsPage in src/src/app/layout.tsx).  Its state: the   *)
(* goals it loaded, whether the form shows, the goal being edited (or      *)
(* null), and the form's fields, which are texts.                          *)
(***************************************************************************)
\* Number.prototype.toString of a number held in hundredths.
NumToString(n) ==
    IF n % 100 = 0 THEN ToString(n \div 100)
    ELSE IF n % 10 = 0
         THEN ToString(n \div 100) \o "." \o ToString((n % 100) \div 10)
         ELSE ToString(n \div 100) \o "." \o Pad2(n % 100)

\* The numbers whose text a number input of the page holds in this model.
Numerals ==
    {Hundredths(n) : n \in {0, 2, 5, 8, 9, 15, 45, 65, 66, 68, 72, 150, 160,
                            300, 10000}}
       \cup {150, 7250}

\* parseFloat of the text of a number input: NaN for the empty text.
parseFloat(text) ==
    IF \E n \in Numerals : NumToString(n) = text
    THEN Num(CHOOSE n \in Numerals : NumToString(n) = text)
    ELSE NaN

\* The number a stored value is compared as: null counts as 0.
toNumber(v) ==
    CASE v.t = "num"  -> v
      [] v.t = "null" -> Num(0)
      [] OTHER        -> NaN

\* a >= b and a < b of JavaScript: both false when either is NaN.
GreaterOrEqual(a, b) ==
    /\ toNumber(a).t = "num" /\ toNumber(b).t = "num"
    /\ toNumber(a).n >= toNumber(b).n

LessThan(a, b) ==
    /\ toNumber(a).t = "num" /\ toNumber(b).t = "num"
    /\ toNumber(a).n < toNumber(b).n

\* The days a date text of the model can name.
DateRange == (StartDay - 10)..(StartDay + 100)

\* new Date("YYYY-MM-DD"): midnight UTC of the day, as an instant; -1 for
\* a text that is no date (Invalid Date).
DateOf(text) ==
    IF \E d \in DateRange : DateStr(d) = text
    THEN Instant(CHOOSE d \in DateRange : DateStr(d) = text, 0)
    ELSE -1

\* new Date(deadline) >= new Date() and new Date(deadline) < new Date(),
\* the clock reading day t, hour h and a half: both false for Invalid Date.
NotBeforeNow(deadline, t, h) ==
    DateOf(deadline) # -1 /\ DateOf(deadline) > Instant(t, h)

BeforeNow(deadline, t, h) ==
    DateOf(deadline) # -1 /\ DateOf(deadline) <= Instant(t, h)

\* goalStats, computed when the page renders.  Each filter evaluates
\* new Date() once for every goal with current < target; the clock reads
\* day t at the first k of these evaluations and day t + 1 at the later
\* ones (k at least the number of evaluations: the day does not change).
goalStats(goals, t, h, k) ==
    LET all       == 1..Len(goals)
        open      == {i \in all :
                         LessThan(goals[i].current, goals[i].target)}
        nth(i)    == Cardinality({j \in open : j <= i})
        clock(n)  == IF n <= k THEN t ELSE t + 1
    IN  [total      |-> Len(goals),
         completed  |-> Cardinality({i \in all :
                           GreaterOrEqual(goals[i].current,
                                          goals[i].target)}),
         inProgress |-> Cardinality({i \in open :
                           NotBeforeNow(goals[i].deadline.s,
                                        clock(nth(i)), h)}),
         overdue    |-> Cardinality({i \in open :
                           BeforeNow(goals[i].deadline.s,
                                     clock(Cardinality(open) + nth(i)), h)})]

\* How many times goalStats evaluates new Date().
ClockReads(goals) ==
    2 * Cardinality({i \in 1..Len(goals) :
                        LessThan(goals[i].current, goals[i].target)})

\* The default unit of a goal type (goalTypes).
defaultUnit(type) ==
    CASE type = "weight"    -> "kg"
      [] type = "steps"     -> "steps"
      [] type = "exercise"  -> "sessions/week"
      [] type = "nutrition" -> "calories"
      [] type = "sleep"     -> "hours"
      [] type = "water"     -> "L"
      [] OTHER              -> ""

\* The form as useState and resetForm set it.
DefaultForm(t) ==
    [title |-> "", type |-> "weight", target |-> "", unit |-> "kg",
     deadline |-> ISODate(t + 30)]

\* The statistics of the first render, which has no goals yet.
NoStats == [total |-> 0, completed |-> 0, inProgress |-> 0, overdue |-> 0]

\* What the user types or selects in the form, and in the quick update.
TitleInputs == {"", "Swim 1km"}
TargetInputs == {"", "0", "66"}
UnitInputs == {"lb"}
TypeInputs == {"steps"}
DeadlineInputs == {DateStr(StartDay + 1)}
ProgressInputs == {"", "66"}

\* The storages a visit of the goals page finds in the model of the form.
GoalsRuntimes ==
    { [st |-> EmptyStorage, ids |-> 0],
      [st |-> Visited.st, ids |-> Visited.ids] }

\* The state in which a browser opens the goals page on one of the
\* runtimes.
PageInit(runtimes) ==
    /\ \E r \in runtimes : storage = r.st /\ uuid = r.ids
    /\ window = TRUE
    /\ timeZone = "UTC"
    /\ hour = 12
    /\ now = StartDay
    /\ calls = 0
    /\ dashboard = [mounted |-> FALSE, healthMetrics |-> <<>>,
                    todaysActivities |-> <<>>, todaysNutrition |-> <<>>,
                    goals |-> <<>>]
    /\ last = NoCall
    /\ tabs = NoTabs
    /\ goalsPage = NoPage
    /\ opener = "none"
    /\ screen = NoPage

InitGoals == PageInit(GoalsRuntimes)

\* A step of the page: what it leaves alone, and the handler it records.
PageStep(op, arg, ret, st) ==
    /\ Complete(op, arg, ret, st)
    /\ UNCHANGED <<env, tabs, dashboard, screen>>

\* resetForm: default fields, form closed, no goal being edited.
resetForm(page, t) ==
    [page EXCEPT !.form = DefaultForm(t), !.showForm = FALSE,
                 !.editingGoal = Null]

\* loadGoals: setGoals(getGoals()).
loadGoals(page, st) == [page EXCEPT !.goals = getGoals(TRUE, st)]

\* The page mounts: the useState values, then the effect's loadGoals.
GoalsMount ==
    /\ ~goalsPage.open
    /\ ~screen.open
    /\ ~dashboard.mounted
    /\ goalsPage' = loadGoals([open |-> TRUE, goals |-> <<>>,
                               showForm |-> FALSE, editingGoal |-> Null,
                               form |-> DefaultForm(now),
                               stats |-> NoStats], storage)
    /\ PageStep("loadGoals", NoArg, RetVoid, storage)
    /\ UNCHANGED <<now, uuid, calls, opener>>

\* The page renders and computes goalStats; the clock may pass to the next
\* day between two of its readings.
GoalsRender ==
    /\ goalsPage.open
    /\ \E k \in 0..ClockReads(goalsPage.goals) :
          /\ k < ClockReads(goalsPage.goals) => now < StartDay + MaxTicks
          /\ goalsPage' = [goalsPage EXCEPT
                 !.stats = goalStats(goalsPage.goals, now, hour, k)]
          /\ now' = IF k < ClockReads(goalsPage.goals) THEN now + 1 ELSE now
          /\ PageStep("goalStats", Arg("", <<>>, k), RetVoid, storage)
    /\ UNCHANGED <<uuid, calls, opener>>

\* The 'New Goal' and 'Create Your First Goal' buttons: setShowForm(true).
\* 'New Goal' is rendered whenever the page is.
NewGoalClick ==
    /\ goalsPage.open
    /\ goalsPage' = [goalsPage EXCEPT !.showForm = TRUE]
    /\ opener' = "new"
    /\ PageStep("setShowForm", NoArg, RetVoid, storage)
    /\ UNCHANGED <<now, uuid, calls>>

\* handleEdit of a goal of the list (goal.target.toString() needs a number).
handleEdit(page, goal) ==
    [page EXCEPT !.editingGoal = goal,
                 !.form = [title    |-> goal.title.s,
                           type     |-> goal.type.s,
                           target   |-> NumToString(goal.target.n),
                           unit     |-> goal.unit.s,
                           deadline |-> goal.deadline.s],
                 !.showForm = TRUE]

EditClick ==
    /\ goalsPage.open
    /\ \E i \in 1..Len(goalsPage.goals) :
          /\ goalsPage.goals[i].target.t = "num"
          /\ goalsPage' = handleEdit(goalsPage, goalsPage.goals[i])
          /\ PageStep("handleEdit", Arg("", <<goalsPage.goals[i]>>, 0),
                      RetVoid, storage)
    /\ opener' = "edit"
    /\ UNCHANGED <<now, uuid, calls>>

\* The fields of the form, rendered while showForm holds.  The type select
\* is disabled while a goal is edited and sets the unit to the type's
\* default.
FormChange ==
    /\ goalsPage.open
    /\ goalsPage.showForm
    /\ \/ \E v \in TitleInputs :
             goalsPage' = [goalsPage EXCEPT !.form.title = v]
       \/ \E v \in TargetInputs :
             goalsPage' = [goalsPage EXCEPT !.form.target = v]
       \/ \E v \in UnitInputs :
             goalsPage' = [goalsPage EXCEPT !.form.unit = v]
       \/ \E v \in DeadlineInputs :
             goalsPage' = [goalsPage EXCEPT !.form.deadline = v]
       \/ \E v \in TypeInputs :
             /\ goalsPage.editingGoal = Null
             /\ goalsPage' = [goalsPage EXCEPT !.form.type = v,
                                  !.form.unit = defaultUnit(v)]
    /\ PageStep("setForm", NoArg, RetVoid, storage)
    /\ UNCHANGED <<now, uuid, calls, opener>>

\* The updates handleSubmit passes to updateGoal, and the goal it passes to
\* addGoal.
SubmitUpdates(form) ==
    [title    |-> Str(form.title),
     target   |-> parseFloat(form.target),
     deadline |-> Str(form.deadline)]

SubmitGoal(form) ==
    [title    |-> Str(form.title),
     type     |-> Str(form.type),
     target   |-> parseFloat(form.target),
     current  |-> Num(0),
     unit     |-> Str(form.unit),
     deadline |-> Str(form.deadline)]

\* handleSubmit with title or target blank: returns at once.
SubmitBlank ==
    /\ goalsPage.open
    /\ goalsPage.showForm
    /\ goalsPage.form.title = "" \/ goalsPage.form.target = ""
    /\ PageStep("handleSubmit", NoArg, RetVoid, storage)
    /\ UNCHANGED <<now, uuid, calls, goalsPage, opener>>

\* handleSubmit while a goal is edited: updateGoal, resetForm, loadGoals.
SubmitEdit ==
    LET form == goalsPage.form
        id   == goalsPage.editingGoal.id.s
        r    == updateGoal(window, storage, id, SubmitUpdates(form))
    IN  /\ goalsPage.open
        /\ goalsPage.showForm
        /\ form.title # "" /\ form.target # ""
        /\ goalsPage.editingGoal # Null
        /\ MayWrite
        /\ PageStep("handleSubmit",
                    Arg("updateGoal", <<SubmitUpdates(form)>>, 0),
                    RetObjectOrNull(r.ret), r.st)
        /\ goalsPage' = loadGoals(resetForm(goalsPage, now), r.st)
        /\ calls' = calls + 1
        /\ UNCHANGED <<now, uuid, opener>>

\* handleSubmit while no goal is edited: addGoal, resetForm, loadGoals.
SubmitNew ==
    LET form == goalsPage.form
        r    == addGoal(window, storage, uuid + 1, now, SubmitGoal(form))
    IN  /\ goalsPage.open
        /\ goalsPage.showForm
        /\ form.title # "" /\ form.target # ""
        /\ goalsPage.editingGoal = Null
        /\ MayWrite
        /\ PageStep("handleSubmit",
                    Arg("addGoal", <<SubmitGoal(form)>>, 0),
                    RetObject(r.ret), r.st)
        /\ goalsPage' = loadGoals(resetForm(goalsPage, now), r.st)
        /\ uuid' = uuid + 1
        /\ calls' = calls + 1
        /\ UNCHANGED <<now, opener>>

\* The form's Cancel button: resetForm.
CancelClick ==
    /\ goalsPage.open
    /\ goalsPage.showForm
    /\ goalsPage' = resetForm(goalsPage, now)
    /\ PageStep("resetForm", NoArg, RetVoid, storage)
    /\ UNCHANGED <<now, uuid, calls, opener>>

\* handleDelete of a goal of the list; the user answers the confirm.
DeleteClick ==
    /\ goalsPage.open
    /\ \E i \in 1..Len(goalsPage.goals), confirmed \in BOOLEAN :
          LET id == goalsPage.goals[i].id.s
              r  == deleteGoal(window, storage, id)
          IN  IF confirmed
              THEN /\ MayWrite
                   /\ PageStep("handleDelete", Arg(id, <<>>, 1),
                               RetBool(r.ret), r.st)
                   /\ goalsPage' = loadGoals(goalsPage, r.st)
                   /\ calls' = calls + 1
              ELSE /\ PageStep("handleDelete", Arg(id, <<>>, 0),
                               RetVoid, storage)
                   /\ UNCHANGED <<goalsPage, calls>>
    /\ UNCHANGED <<now, uuid, opener>>

\* The quick update of a goal that is not completed: handleUpdateProgress
\* with the parsed text, unless it is NaN.
ProgressUpdate ==
    /\ goalsPage.open
    /\ \E i \in 1..Len(goalsPage.goals), text \in ProgressInputs :
          LET goal  == goalsPage.goals[i]
              value == parseFloat(text)
              r     == updateGoal(window, storage, goal.id.s,
                                  [current |-> value])
          IN  /\ ~GreaterOrEqual(goal.current, goal.target)
              /\ IF value # NaN
                 THEN /\ MayWrite
                      /\ PageStep("handleUpdateProgress",
                                  Arg(goal.id.s, <<[current |-> value]>>, 0),
                                  RetObjectOrNull(r.ret), r.st)
                      /\ goalsPage' = loadGoals(goalsPage, r.st)
                      /\ calls' = calls + 1
                 ELSE /\ PageStep("onKeyPress", Arg(goal.id.s, <<>>, 0),
                                  RetVoid, storage)
                      /\ UNCHANGED <<goalsPage, calls>>
    /\ UNCHANGED <<now, uuid, opener>>

NextGoals ==
    \/ GoalsMount
    \/ NewGoalClick
    \/ EditClick
    \/ FormChange
    \/ SubmitBlank
    \/ SubmitEdit
    \/ SubmitNew
    \/ CancelClick
    \/ Tick

SpecGoals == InitGoals /\ [][NextGoals]_vars

(***************************************************************************)
(* The statistics of the goals page: the page is opened on goal lists as   *)
(* generateSampleData, the form and the quick update store them, renders,  *)
(* and its list changes by the quick update and by deleting.               *)
(***************************************************************************)
\* Storage right after generateSampleData.
Sampled == generateSampleData(TRUE, EmptyStorage, 0, StartDay, 2, 12, "UTC")

\* Storage after the form added a goal due tomorrow and one due the day
\* after, and the quick update brought the second to its target.
Planned ==
    LET a == addGoal(TRUE, EmptyStorage, 1, StartDay,
                 SubmitGoal([title |-> "Swim 1km", type |-> "steps",
                             target |-> "66", unit |-> "steps",
                             deadline |-> DateStr(StartDay + 1)]))
        b == addGoal(TRUE, a.st, 2, StartDay,
                 SubmitGoal([title |-> "Swim 1km", type |-> "weight",
                             target |-> "66", unit |-> "lb",
                             deadline |-> DateStr(StartDay + 2)]))
        c == updateGoal(TRUE, b.st, uuidv4(2).s, [current |-> Num(6600)])
    IN  [st |-> c.st, ids |-> 2]

StatsRuntimes ==
    { [st |-> Sampled.st, ids |-> Sampled.ids],
      [st |-> Visited.st, ids |-> Visited.ids],
      [st |-> Planned.st, ids |-> Planned.ids] }

InitStats == PageInit(StatsRuntimes)

NextStats ==
    \/ GoalsMount
    \/ GoalsRender
    \/ ProgressUpdate
    \/ DeleteClick
    \/ Tick

SpecStats == InitStats /\ [][NextStats]_vars

(***************************************************************************)
(* Claims about the goal form (SpecGoals).                                 *)
(***************************************************************************)
\* The step is a handleSubmit that called the library function op.
Submitted(op) ==
    /\ last'.op = "handleSubmit"
    /\ last'.arg.s = op
    /\ calls' = calls + 1

\* C17: a submit of the form while a stored goal is edited stores the
\* form's title, target, unit and deadline in the goal with the edited
\* goal's id, keeps that goal's id, type, current and createdAt, and keeps
\* every other goal and the number of goals.
C17_EditSavesFormFields ==
    [][LET old   == Stored(storage, GOALS_KEY)
           new   == Stored(storage', GOALS_KEY)
           index == findIndexOfId(old, goalsPage.editingGoal.id.s)
           form  == goalsPage.form
       IN  (Submitted("updateGoal") /\ index # -1) =>
               /\ Len(new) = Len(old)
               /\ \A i \in 1..Len(old) : i # index + 1 => new[i] = old[i]
               /\ new[index + 1].title = Str(form.title)
               /\ new[index + 1].target = parseFloat(form.target)
               /\ new[index + 1].unit = Str(form.unit)
               /\ new[index + 1].deadline = Str(form.deadline)
               /\ \A k \in {"id", "type", "current", "createdAt"} :
                     new[index + 1][k] = old[index + 1][k]]_vars

\* C18: a goal is being edited only while the form shows; after a submit
\* that stored something and after a cancel the form is closed, no goal is
\* being edited and the fields are the defaults; and a submit whose last
\* opening control was 'New Goal' calls addGoal with current 0, never
\* updateGoal.
C18_NewGoalNeverUpdates ==
    [][/\ goalsPage'.open =>
             (goalsPage'.editingGoal # Null => goalsPage'.showForm)
       /\ (Submitted("addGoal") \/ Submitted("updateGoal")
              \/ last'.op = "resetForm") =>
             /\ ~goalsPage'.showForm
             /\ goalsPage'.editingGoal = Null
             /\ goalsPage'.form = DefaultForm(now')
       /\ (last'.op = "handleSubmit" /\ last'.arg.s # "" /\ opener = "new") =>
             /\ last'.arg.s = "addGoal"
             /\ last'.arg.objs[1].current = Num(0)]_vars

(***************************************************************************)
(* Claims about the statistics of the goals page (SpecStats).              *)
(***************************************************************************)
\* The step is a render of the goals page, which computes goalStats.
Rendered == last'.op = "goalStats"

\* The goals have numeric current and target and a deadline that is a date.
WellFormed(goals) ==
    \A i \in 1..Len(goals) :
        /\ goals[i].current.t = "num"
        /\ goals[i].target.t = "num"
        /\ DateOf(goals[i].deadline.s) # -1

\* C19: the statistics a render computes for a list of goals with numeric
\* current and target and valid deadlines count every goal once: completed
\* is the number of goals with current >= target, inProgress and overdue
\* together the number of goals with current < target, and the three add
\* up to total, the length of the list.
C19_StatsPartition ==
    [][LET goals == goalsPage'.goals
           stats == goalsPage'.stats
           done  == {i \in 1..Len(goals) :
                        goals[i].current.n >= goals[i].target.n}
       IN  (Rendered /\ WellFormed(goals)) =>
               /\ stats.total = Len(goals)
               /\ stats.completed = Cardinality(done)
               /\ stats.inProgress + stats.overdue
                      = Len(goals) - Cardinality(done)
               /\ stats.completed + stats.inProgress + stats.overdue
                      = stats.total]_vars

\* C20: when the goals page renders on the goals generateSampleData stored,
\* its statistics count both sample goals as in progress: completed 0,
\* inProgress 2, overdue 0.
C20_SampleGoalsInProgress ==
    (/\ last.op = "goalStats"
     /\ Stored(storage, GOALS_KEY) = Stored(Sampled.st, GOALS_KEY)
     /\ goalsPage.goals = Stored(Sampled.st, GOALS_KEY))
        => goalsPage.stats = [total |-> 2, completed |-> 0,
                              inProgress |-> 2, overdue |-> 0]

(***************************************************************************)
(* The progress percentage of a goal card.                                 *)
(***************************************************************************)
\* Math.min((goal.current / goal.target) * 100, 100), in hundredths of a
\* percent (cut off below that): 0 / 0 is NaN, and so is the minimum of NaN
\* and 100; a positive number / 0 is Infinity, whose minimum with 100 is
\* 100; a negative number / 0 is -Infinity, written here as a string value.
progress(goal) ==
    LET current == toNumber(goal.current)
        target  == toNumber(goal.target)
    IN  IF current.t # "num" \/ target.t # "num" THEN NaN
        ELSE IF target.n = 0
             THEN IF current.n = 0 THEN NaN
                  ELSE IF current.n > 0 THEN Num(Hundredths(100))
                  ELSE Str("-Infinity")
        ELSE LET percent == (current.n * Hundredths(100)) \div target.n
             IN  IF percent > Hundredths(100) THEN Num(Hundredths(100))
                 ELSE Num(percent)

\* C21: the progress percentage of every goal the goals page holds is a
\* number from 0 to 100.
C21_ProgressBounded ==
    goalsPage.open =>
        \A i \in 1..Len(goalsPage.goals) :
            /\ progress(goalsPage.goals[i]).t = "num"
            /\ progress(goalsPage.goals[i]).n >= 0
            /\ progress(goalsPage.goals[i]).n <= Hundredths(100)

(***************************************************************************)
(* The other pages: Nutrition (src/src/app/nutrition/page.tsx), Activities *)
(* (src/unnamed/part_002), Vitals (src/unnamed/part_001) and the           *)
(* dashboard's quick actions (src/src/app/page.tsx).  `screen` holds the   *)
(* state of the one that is open.                                          *)
(***************************************************************************)
\* A step of one of these pages: the handler it records and what it leaves
\* alone.
ScreenStep(op, arg, ret, st) ==
    /\ Complete(op, arg, ret, st)
    /\ UNCHANGED <<env, tabs, goalsPage, opener>>

\* No page is open yet.
NoneOpen == ~screen.open /\ ~goalsPage.open /\ ~dashboard.mounted

\* The page named name is open.
IsOpen(name) == screen.open /\ screen.name = name

\* parseFloat(text) || 0: 0 for NaN.
parseFloatOr0(text) ==
    IF parseFloat(text) = NaN THEN Num(0) ELSE parseFloat(text)

\* parseInt of the text of a number input: the digits before the point.
parseInt(text) ==
    IF parseFloat(text) = NaN THEN NaN
    ELSE Num(Hundredths(parseFloat(text).n \div 100))

\* The nutrition form as useState and handleSubmit set it.
NutritionDefaultForm(t) ==
    [meal |-> "breakfast", food |-> "", calories |-> "", protein |-> "",
     carbs |-> "", fat |-> "", date |-> ISODate(t)]

\* Nutrition loadData: setEntries, setTodaysEntries.
NutritionLoadData(scr, st, t) ==
    [scr EXCEPT !.entries = getNutritionEntries(TRUE, st),
                !.todaysEntries = getTodaysNutrition(TRUE, st, t)]

\* The entry the nutrition handleSubmit passes to addNutritionEntry.
NutritionSubmitEntry(form) ==
    [meal     |-> Str(form.meal),
     food     |-> Str(form.food),
     calories |-> parseFloat(form.calories),
     protein  |-> parseFloatOr0(form.protein),
     carbs    |-> parseFloatOr0(form.carbs),
     fat      |-> parseFloatOr0(form.fat),
     date     |-> Str(form.date)]

\* A variant of the nutrition submit's test that looks at the food only.
NutritionBlank_FoodOnly(form) == form.food = ""

\* !form.food || !form.calories
NutritionBlank(form) == form.food = "" \/ form.calories = ""

\* What the user types or selects on the nutrition page.
FoodInputs == {"", "Oatmeal"}
CaloriesInputs == {"", "150"}
MealInputs == {"dinner"}
DayInputs == {DateStr(StartDay - 1)}

\* The common food the model's user picks (commonFoods).
Avocado ==
    [name |-> "Avocado", calories |-> Hundredths(160),
     protein |-> Hundredths(2), carbs |-> Hundredths(9),
     fat |-> Hundredths(15)]

\* The page mounts: the useState values, then the effect's loadData.
NutritionMount ==
    /\ NoneOpen
    /\ screen' = NutritionLoadData(
           [open |-> TRUE, name |-> "nutrition", entries |-> <<>>,
            todaysEntries |-> <<>>, showForm |-> FALSE,
            filterMeal |-> "all", searchTerm |-> "",
            form |-> NutritionDefaultForm(now)], storage, now)
    /\ ScreenStep("Nutrition.loadData", NoArg, RetVoid, storage)
    /\ UNCHANGED <<now, uuid, calls, dashboard>>

\* The 'Log Food' button: setShowForm(true).
NutritionShowForm ==
    /\ IsOpen("nutrition")
    /\ screen' = [screen EXCEPT !.showForm = TRUE]
    /\ ScreenStep("Nutrition.setShowForm", NoArg, RetVoid, storage)
    /\ UNCHANGED <<now, uuid, calls, dashboard>>

\* The fields of the nutrition form and the common-food buttons.
NutritionChange ==
    /\ IsOpen("nutrition")
    /\ screen.showForm
    /\ \/ \E v \in FoodInputs : screen' = [screen EXCEPT !.form.food = v]
       \/ \E v \in CaloriesInputs :
             screen' = [screen EXCEPT !.form.calories = v]
       \/ \E v \in MealInputs : screen' = [screen EXCEPT !.form.meal = v]
       \/ \E v \in DayInputs : screen' = [screen EXCEPT !.form.date = v]
       \/ screen' = [screen EXCEPT
              !.form.food = Avocado.name,
              !.form.calories = NumToString(Avocado.calories),
              !.form.protein = NumToString(Avocado.protein),
              !.form.carbs = NumToString(Avocado.carbs),
              !.form.fat = NumToString(Avocado.fat)]
    /\ ScreenStep("Nutrition.setForm", NoArg, RetVoid, storage)
    /\ UNCHANGED <<now, uuid, calls, dashboard>>

\* The nutrition handleSubmit: returns at once when food or calories is
\* blank; else addNutritionEntry, the default form, form closed, loadData.
NutritionSubmit ==
    LET form == screen.form
        r    == addNutritionEntry(window, storage, uuid + 1,
                                  NutritionSubmitEntry(form))
    IN  /\ IsOpen("nutrition")
        /\ screen.showForm
        /\ IF NutritionBlank(form)
           THEN /\ ScreenStep("Nutrition.handleSubmit", NoArg, RetVoid,
                              storage)
                /\ UNCHANGED <<screen, uuid, calls>>
           ELSE /\ MayWrite
                /\ ScreenStep("Nutrition.handleSubmit",
                              Arg("addNutritionEntry",
                                  <<NutritionSubmitEntry(form)>>, 0),
                              RetObject(r.ret), r.st)
                /\ screen' = NutritionLoadData(
                       [screen EXCEPT !.form = NutritionDefaultForm(now),
                                      !.showForm = FALSE], r.st, now)
                /\ uuid' = uuid + 1
                /\ calls' = calls + 1
        /\ UNCHANGED <<now, dashboard>>

\* The nutrition form's Cancel button: setShowForm(false).
NutritionCancel ==
    /\ IsOpen("nutrition")
    /\ screen.showForm
    /\ screen' = [screen EXCEPT !.showForm = FALSE]
    /\ ScreenStep("Nutrition.cancel", NoArg, RetVoid, storage)
    /\ UNCHANGED <<now, uuid, calls, dashboard>>

NextNutrition ==
    \/ NutritionMount
    \/ NutritionShowForm
    \/ NutritionChange
    \/ NutritionSubmit
    \/ NutritionCancel

(***************************************************************************)
(* The Activities page.                                                    *)
(***************************************************************************)
ActivityDefaultForm(t) ==
    [type |-> "walking", duration |-> "", calories |-> "", notes |-> "",
     date |-> ISODate(t)]

\* loadActivities: setActivities(getActivities()).
loadActivities(scr, st) == [scr EXCEPT !.activities = getActivities(TRUE, st)]

\* The activity the activities handleSubmit passes to addActivity.
ActivitySubmitEntry(form) ==
    [type     |-> Str(form.type),
     duration |-> parseInt(form.duration),
     calories |-> parseInt(form.calories),
     notes    |-> Str(form.notes),
     date     |-> Str(form.date)]

\* !form.duration || !form.calories
ActivityBlank(form) == form.duration = "" \/ form.calories = ""

\* What the user types or selects on the activities page.
DurationInputs == {"", "45"}
BurnedInputs == {"", "300"}
ActivityTypeInputs == {"yoga"}
NotesInputs == {"easy"}

ActivitiesMount ==
    /\ NoneOpen
    /\ screen' = loadActivities(
           [open |-> TRUE, name |-> "activities", activities |-> <<>>,
            showForm |-> FALSE, filterType |-> "all", searchTerm |-> "",
            form |-> ActivityDefaultForm(now)], storage)
    /\ ScreenStep("Activities.loadActivities", NoArg, RetVoid, storage)
    /\ UNCHANGED <<now, uuid, calls, dashboard>>

\* The 'Log Activity' button: setShowForm(true).
ActivitiesShowForm ==
    /\ IsOpen("activities")
    /\ screen' = [screen EXCEPT !.showForm = TRUE]
    /\ ScreenStep("Activities.setShowForm", NoArg, RetVoid, storage)
    /\ UNCHANGED <<now, uuid, calls, dashboard>>

ActivitiesChange ==
    /\ IsOpen("activities")
    /\ screen.showForm
    /\ \/ \E v \in DurationInputs :
             screen' = [screen EXCEPT !.form.duration = v]
       \/ \E v \in BurnedInputs :
             screen' = [screen EXCEPT !.form.calories = v]
       \/ \E v \in ActivityTypeInputs :
             screen' = [screen EXCEPT !.form.type = v]
       \/ \E v \in NotesInputs : screen' = [screen EXCEPT !.form.notes = v]
       \/ \E v \in DayInputs : screen' = [screen EXCEPT !.form.date = v]
    /\ ScreenStep("Activities.setForm", NoArg, RetVoid, storage)
    /\ UNCHANGED <<now, uuid, calls, dashboard>>

\* The activities handleSubmit: returns at once when duration or calories
\* is blank; else addActivity, the default form, form closed,
\* loadActivities.
ActivitiesSubmit ==
    LET form == screen.form
        r    == addActivity(window, storage, uuid + 1,
                            ActivitySubmitEntry(form))
    IN  /\ IsOpen("activities")
        /\ screen.showForm
        /\ IF ActivityBlank(form)
           THEN /\ ScreenStep("Activities.handleSubmit", NoArg, RetVoid,
                              storage)
                /\ UNCHANGED <<screen, uuid, calls>>
           ELSE /\ MayWrite
                /\ ScreenStep("Activities.handleSubmit",
                              Arg("addActivity",
                                  <<ActivitySubmitEntry(form)>>, 0),
                              RetObject(r.ret), r.st)
                /\ screen' = loadActivities(
                       [screen EXCEPT !.form = ActivityDefaultForm(now),
                                      !.showForm = FALSE], r.st)
                /\ uuid' = uuid + 1
                /\ calls' = calls + 1
        /\ UNCHANGED <<now, dashboard>>

ActivitiesCancel ==
    /\ IsOpen("activities")
    /\ screen.showForm
    /\ screen' = [screen EXCEPT !.showForm = FALSE]
    /\ ScreenStep("Activities.cancel", NoArg, RetVoid, storage)
    /\ UNCHANGED <<now, uuid, calls, dashboard>>

NextActivities ==
    \/ ActivitiesMount
    \/ ActivitiesShowForm
    \/ ActivitiesChange
    \/ ActivitiesSubmit
    \/ ActivitiesCancel

(***************************************************************************)
(* The Vitals page.                                                        *)
(***************************************************************************)
\* vitalTypes.find(v => v.value === type)?.unit || ''
vitalUnit(type) ==
    CASE type = "weight"                   -> "kg"
      [] type = "blood_pressure_systolic"  -> "mmHg"
      [] type = "blood_pressure_diastolic" -> "mmHg"
      [] type = "heart_rate"               -> "bpm"
      [] type = "steps"                    -> "steps"
      [] type = "sleep_hours"              -> "hours"
      [] type = "water_intake"             -> "L"
      [] OTHER                             -> ""

\* The types the vitals form's select offers (vitalTypes).
VitalTypes ==
    {"weight", "blood_pressure_systolic", "blood_pressure_diastolic",
     "heart_rate", "steps", "sleep_hours", "water_intake"}

\* new Date().toTimeString().slice(0, 5): the local wall clock, at half past.
toTimeString(zone, t, h) ==
    Pad2(LocalTime(zone, Instant(t, h)) % 24) \o ":30"

VitalDefaultForm(zone, t, h) ==
    [type |-> "weight", value |-> "", date |-> ISODate(t),
     time |-> toTimeString(zone, t, h)]

\* loadMetrics: setMetrics(getHealthMetrics()).
loadMetrics(scr, st) == [scr EXCEPT !.metrics = getHealthMetrics(TRUE, st)]

\* The metric the vitals handleSubmit passes to addHealthMetric.
\* A variant that takes the unit of the vital selected for the chart.
VitalSubmitMetric_ChartUnit(form) ==
    [type  |-> Str(form.type),
     value |-> parseFloat(form.value),
     unit  |-> Str(vitalUnit(screen.selectedVital)),
     date  |-> Str(form.date)]

VitalSubmitMetric(form) ==
    [type  |-> Str(form.type),
     value |-> parseFloat(form.value),
     unit  |-> Str(vitalUnit(form.type)),
     date  |-> Str(form.date)]

\* What the user types or selects on the vitals page.
VitalValueInputs == {"", "72.5"}
VitalTypeInputs == {"heart_rate", "blood_pressure_systolic"}
SelectedVitalInputs == {"steps"}

VitalsMount ==
    /\ NoneOpen
    /\ screen' = loadMetrics(
           [open |-> TRUE, name |-> "vitals", metrics |-> <<>>,
            showForm |-> FALSE, selectedVital |-> "weight",
            form |-> VitalDefaultForm(timeZone, now, hour)], storage)
    /\ ScreenStep("Vitals.loadMetrics", NoArg, RetVoid, storage)
    /\ UNCHANGED <<now, uuid, calls, dashboard>>

\* The 'Record Vital' button: setShowForm(true).
VitalsShowForm ==
    /\ IsOpen("vitals")
    /\ screen' = [screen EXCEPT !.showForm = TRUE]
    /\ ScreenStep("Vitals.setShowForm", NoArg, RetVoid, storage)
    /\ UNCHANGED <<now, uuid, calls, dashboard>>

\* The cards and the select that choose the vital of the chart.
VitalsSelect ==
    /\ IsOpen("vitals")
    /\ \E v \in SelectedVitalInputs :
          screen' = [screen EXCEPT !.selectedVital = v]
    /\ ScreenStep("Vitals.setSelectedVital", NoArg, RetVoid, storage)
    /\ UNCHANGED <<now, uuid, calls, dashboard>>

VitalsChange ==
    /\ IsOpen("vitals")
    /\ screen.showForm
    /\ \/ \E v \in VitalValueInputs :
             screen' = [screen EXCEPT !.form.value = v]
       \/ \E v \in VitalTypeInputs :
             screen' = [screen EXCEPT !.form.type = v]
       \/ \E v \in DayInputs : screen' = [screen EXCEPT !.form.date = v]
    /\ ScreenStep("Vitals.setForm", NoArg, RetVoid, storage)
    /\ UNCHANGED <<now, uuid, calls, dashboard>>

\* The vitals handleSubmit: returns at once when the value is blank; else
\* addHealthMetric, the default form, form closed, loadMetrics.
VitalsSubmit ==
    LET form == screen.form
        r    == addHealthMetric(window, storage, uuid + 1,
                                VitalSubmitMetric(form))
    IN  /\ IsOpen("vitals")
        /\ screen.showForm
        /\ IF form.value = ""
           THEN /\ ScreenStep("Vitals.handleSubmit", NoArg, RetVoid, storage)
                /\ UNCHANGED <<screen, uuid, calls>>
           ELSE /\ MayWrite
                /\ ScreenStep("Vitals.handleSubmit",
                              Arg("addHealthMetric",
                                  <<VitalSubmitMetric(form)>>, 0),
                              RetObject(r.ret), r.st)
                /\ screen' = loadMetrics(
                       [screen EXCEPT
                           !.form = VitalDefaultForm(timeZone, now, hour),
                           !.showForm = FALSE], r.st)
                /\ uuid' = uuid + 1
                /\ calls' = calls + 1
        /\ UNCHANGED <<now, dashboard>>

VitalsCancel ==
    /\ IsOpen("vitals")
    /\ screen.showForm
    /\ screen' = [screen EXCEPT !.showForm = FALSE]
    /\ ScreenStep("Vitals.cancel", NoArg, RetVoid, storage)
    /\ UNCHANGED <<now, uuid, calls, dashboard>>

NextVitals ==
    \/ VitalsMount
    \/ VitalsShowForm
    \/ VitalsSelect
    \/ VitalsChange
    \/ VitalsSubmit
    \/ VitalsCancel

(***************************************************************************)
(* The dashboard's quick actions.                                          *)
(***************************************************************************)
\* The units record of handleAddMetric.
units(type) ==
    CASE type = "weight"                   -> "kg"
      [] type = "steps"                    -> "steps"
      [] type = "sleep_hours"              -> "hours"
      [] type = "water_intake"             -> "L"
      [] type = "heart_rate"               -> "bpm"
      [] type = "blood_pressure_systolic"  -> "mmHg"
      [] type = "blood_pressure_diastolic" -> "mmHg"
      [] type = "calories_burned"          -> "cal"

\* The options of the quick action's metric type select.
QuickMetricTypes ==
    {"weight", "steps", "sleep_hours", "water_intake", "heart_rate"}

\* The buttons of the quick activity logging.
QuickActivities ==
    { [type |-> "walking", duration |-> 30, calories |-> 150],
      [type |-> "running", duration |-> 30, calories |-> 300],
      [type |-> "cycling", duration |-> 45, calories |-> 400],
      [type |-> "strength", duration |-> 60, calories |-> 250] }

\* setQuickAction({ isOpen: false, type: null })
QuickClosed == [isOpen |-> FALSE, type |-> "null"]

\* The metric handleAddMetric passes to addHealthMetric.
QuickMetric(scr, t) ==
    [date  |-> Str(ISODate(t)),
     type  |-> Str(scr.selectedMetricType),
     value |-> parseFloat(scr.newMetricValue),
     unit  |-> Str(units(scr.selectedMetricType))]

\* The activity handleAddQuickActivity passes to addActivity.
QuickActivity(a, t) ==
    [date     |-> Str(ISODate(t)),
     type     |-> Str(a.type),
     duration |-> Num(Hundredths(a.duration)),
     calories |-> Num(Hundredths(a.calories))]

\* What the user types or selects in the quick action.
QuickValueInputs == {"", "72.5"}
QuickTypeInputs == {"water_intake", "heart_rate"}

\* Storage of a visitor who recorded a weight yesterday.
Measured ==
    LET a == addHealthMetric(TRUE, Visited.st, Visited.ids + 1,
                 [type |-> Str("weight"), value |-> Num(7250),
                  unit |-> Str("kg"), date |-> Str(Past0)])
    IN  [st |-> a.st, ids |-> Visited.ids + 1]

\* The dashboard mounts with the quick action closed: the effect seeds the
\* sample data when no metric is stored, then loadData.
DashboardOpen ==
    \E seed \in Seeds :
        LET r == DashboardEffect(storage, uuid, now, seed, hour, timeZone)
        IN  /\ NoneOpen
            /\ r.seeded => MayWrite
            /\ ScreenStep("Dashboard.loadData", Arg("", <<>>, seed), RetVoid,
                          r.st)
            /\ dashboard' = loadData(r.st, now)
            /\ screen' = [open |-> TRUE, name |-> "dashboard",
                          quickAction |-> QuickClosed,
                          newMetricValue |-> "",
                          selectedMetricType |-> "weight"]
            /\ uuid' = r.ids
            /\ calls' = IF r.seeded THEN calls + 1 ELSE calls
            /\ UNCHANGED now

\* The 'Add Metric' and 'Log Activity' quick action buttons, and Cancel.
QuickActionSet ==
    /\ IsOpen("dashboard")
    /\ \E q \in {[isOpen |-> TRUE, type |-> "metric"],
                 [isOpen |-> TRUE, type |-> "activity"], QuickClosed} :
          /\ q = QuickClosed => screen.quickAction.isOpen
          /\ screen' = [screen EXCEPT !.quickAction = q]
    /\ ScreenStep("Dashboard.setQuickAction", NoArg, RetVoid, storage)
    /\ UNCHANGED <<now, uuid, calls, dashboard>>

\* The metric type select and the value input of the quick action.
QuickChange ==
    /\ IsOpen("dashboard")
    /\ screen.quickAction = [isOpen |-> TRUE, type |-> "metric"]
    /\ \/ \E v \in QuickValueInputs :
             screen' = [screen EXCEPT !.newMetricValue = v]
       \/ \E v \in QuickTypeInputs :
             screen' = [screen EXCEPT !.selectedMetricType = v]
    /\ ScreenStep("Dashboard.setNewMetric", NoArg, RetVoid, storage)
    /\ UNCHANGED <<now, uuid, calls, dashboard>>

\* handleAddMetric: returns at once when the value is blank; else
\* addHealthMetric, value cleared, quick action closed, loadData.
HandleAddMetric ==
    LET metric == QuickMetric(screen, now)
        r      == addHealthMetric(window, storage, uuid + 1, metric)
    IN  /\ IsOpen("dashboard")
        /\ screen.quickAction = [isOpen |-> TRUE, type |-> "metric"]
        /\ IF screen.newMetricValue = ""
           THEN /\ ScreenStep("handleAddMetric", NoArg, RetVoid, storage)
                /\ UNCHANGED <<screen, dashboard, uuid, calls>>
           ELSE /\ MayWrite
                /\ ScreenStep("handleAddMetric",
                              Arg("addHealthMetric", <<metric>>, 0),
                              RetObject(r.ret), r.st)
                /\ screen' = [screen EXCEPT !.newMetricValue = "",
                                            !.quickAction = QuickClosed]
                /\ dashboard' = loadData(r.st, now)
                /\ uuid' = uuid + 1
                /\ calls' = calls + 1
        /\ UNCHANGED now

\* A variant of handleAddQuickActivity's end that does not load the data.
QuickActivityDone_NoLoad(st, t) == dashboard

\* The end of handleAddQuickActivity: loadData().
QuickActivityDone(st, t) == loadData(st, t)

\* handleAddQuickActivity: addActivity, quick action closed, loadData.
HandleAddQuickActivity ==
    \E a \in QuickActivities :
        LET activity == QuickActivity(a, now)
            r        == addActivity(window, storage, uuid + 1, activity)
        IN  /\ IsOpen("dashboard")
            /\ screen.quickAction = [isOpen |-> TRUE, type |-> "activity"]
            /\ MayWrite
            /\ ScreenStep("handleAddQuickActivity",
                          Arg("addActivity", <<activity>>, 0),
                          RetObject(r.ret), r.st)
            /\ screen' = [screen EXCEPT !.quickAction = QuickClosed]
            /\ dashboard' = QuickActivityDone(r.st, now)
            /\ uuid' = uuid + 1
            /\ calls' = calls + 1
            /\ UNCHANGED now

NextDashboard ==
    \/ DashboardOpen
    \/ QuickActionSet
    \/ QuickChange
    \/ HandleAddMetric
    \/ HandleAddQuickActivity

(***************************************************************************)
(* All pages: a browser opens one page on stored data and uses it.  The    *)
(* goal form is submitted as New Goal and Edit open it; typing into it is  *)
(* explored in SpecGoals.                                                  *)
(***************************************************************************)
PagesRuntimes ==
    GoalsRuntimes \cup {[st |-> Measured.st, ids |-> Measured.ids]}

InitPages == PageInit(PagesRuntimes)

NextPages ==
    \/ NextNutrition
    \/ NextActivities
    \/ NextVitals
    \/ NextDashboard
    \/ GoalsMount
    \/ NewGoalClick
    \/ EditClick
    \/ SubmitBlank
    \/ SubmitEdit
    \/ CancelClick
    \/ ProgressUpdate
    \/ DeleteClick
    \/ Tick

SpecPages == InitPages /\ [][NextPages]_vars

(***************************************************************************)
(* Claims about the pages (SpecPages).                                     *)
(***************************************************************************)
\* The step is a run of the handler op of the page named name, open with
\* its form showing.
Handled(name, op) ==
    /\ IsOpen(name)
    /\ last'.op = op
    /\ last' # last

\* The step is a submit with a required field blank, on one of the pages.
BlankSubmit ==
    \/ /\ Handled("nutrition", "Nutrition.handleSubmit")
       /\ screen.form.food = "" \/ screen.form.calories = ""
    \/ /\ Handled("activities", "Activities.handleSubmit")
       /\ screen.form.duration = "" \/ screen.form.calories = ""
    \/ /\ Handled("vitals", "Vitals.handleSubmit")
       /\ screen.form.value = ""
    \/ /\ Handled("dashboard", "handleAddMetric")
       /\ screen.newMetricValue = ""
    \/ /\ goalsPage.open
       /\ last'.op = "handleSubmit"
       /\ last' # last
       /\ goalsPage.form.title = "" \/ goalsPage.form.target = ""

\* C22: a submit of the nutrition, activities, vitals or goal form, or the
\* dashboard's add metric, with a required field blank calls no add or
\* update, leaves storage as it is and leaves the page, its form open and
\* the fields, as they are.
C22_BlankSubmitStoresNothing ==
    [][BlankSubmit =>
          /\ storage' = storage
          /\ last'.arg.s = ""
          /\ calls' = calls /\ uuid' = uuid
          /\ screen' = screen
          /\ goalsPage' = goalsPage
          /\ dashboard' = dashboard]_vars

C22_Witness ==
    /\ IsOpen("nutrition")
    /\ last.op = "Nutrition.handleSubmit"
    /\ last.arg.s = ""
    /\ screen.showForm
    /\ screen.form.food = "Oatmeal"
    /\ screen.form.calories = ""
    /\ Stored(storage, NUTRITION_ENTRIES_KEY) # <<>>

\* The lists the open page holds equal the stored collections (and its
\* today lists the today queries on them), in the state after the step.
Mirrors ==
    /\ (screen'.open /\ screen'.name = "nutrition") =>
          /\ screen'.entries = Stored(storage', NUTRITION_ENTRIES_KEY)
          /\ screen'.todaysEntries = getTodaysNutrition(TRUE, storage', now')
    /\ (screen'.open /\ screen'.name = "activities") =>
          screen'.activities = Stored(storage', ACTIVITIES_KEY)
    /\ (screen'.open /\ screen'.name = "vitals") =>
          screen'.metrics = Stored(storage', HEALTH_METRICS_KEY)
    /\ dashboard'.mounted =>
          /\ dashboard'.healthMetrics = Stored(storage', HEALTH_METRICS_KEY)
          /\ dashboard'.todaysActivities
                 = getTodaysActivities(TRUE, storage', now')
          /\ dashboard'.todaysNutrition
                 = getTodaysNutrition(TRUE, storage', now')
          /\ dashboard'.goals = Stored(storage', GOALS_KEY)
    /\ goalsPage'.open => goalsPage'.goals = Stored(storage', GOALS_KEY)

CanonicalUnit(type) ==
    CASE type = "weight"                   -> "kg"
      [] type = "steps"                    -> "steps"
      [] type = "sleep_hours"              -> "hours"
      [] type = "water_intake"             -> "L"
      [] type = "heart_rate"               -> "bpm"
      [] type = "blood_pressure_systolic"  -> "mmHg"
      [] type = "blood_pressure_diastolic" -> "mmHg"
      [] OTHER                             -> ""

StoredMetrics == Stored(storage, HEALTH_METRICS_KEY)

\* C24: every stored health metric carries the unit of its type (kg, steps,
\* hours, L, bpm, mmHg) and never the empty text, in every state reached by
\* the sample data, the dashboard's add-metric action and the vitals form.
C24_CanonicalUnits ==
    \A i \in 1..Len(StoredMetrics) :
        /\ StoredMetrics[i].unit.s = CanonicalUnit(StoredMetrics[i].type.s)
        /\ StoredMetrics[i].unit.s # ""

C24_Witness ==
    /\ \E i \in 1..Len(StoredMetrics) :
           /\ StoredMetrics[i].type.s = "heart_rate"
           /\ StoredMetrics[i].unit.s = "bpm"
    /\ \E i \in 1..Len(StoredMetrics) : StoredMetrics[i].type.s = "weight"
    /\ last.op = "Vitals.handleSubmit"
    /\ screen.selectedVital = "steps"

(***************************************************************************)
(* Charts and aggregates.  The pages compute them from their lists each    *)
(* time they render.  date-fns' format and subDays work in the runtime's   *)
(* local time zone; new Date("YYYY-MM-DD") is midnight UTC of that day.    *)
(* A day is counted as before (day 1 is 2026-01-01), days of 2025 below 1. *)
(***************************************************************************)
MonthNames ==
    <<"Jan", "Feb", "Mar", "Apr", "May", "Jun",
      "Jul", "Aug", "Sep", "Oct", "Nov", "Dec">>

\* Year, month and day of day number d, from 2025-01-01 on.
CivilDate(d) == IF d >= 1 THEN YMD(2026, 1, d) ELSE YMD(2025, 1, d + 365)

\* format(date, 'MMM dd') of a date whose local calendar day is d.
formatMMMdd(d) ==
    LET ymd == CivilDate(d)
    IN  MonthNames[ymd[2]] \o " " \o Pad2(ymd[3])

\* format(date, 'yyyy-MM-dd') of a date whose local calendar day is d.
formatISO(d) ==
    LET ymd == CivilDate(d)
    IN  ToString(ymd[1]) \o "-" \o Pad2(ymd[2]) \o "-" \o Pad2(ymd[3])

\* The number a text of digits denotes.
digit(c) == CHOOSE n \in 0..9 : ToString(n) = c

RECURSIVE digits(_)
digits(text) ==
    IF Len(text) = 0 THEN 0
    ELSE digits(SubSeq(text, 1, Len(text) - 1)) * 10
             + digit(SubSeq(text, Len(text), Len(text)))

RECURSIVE DaysBeforeMonth(_, _)
DaysBeforeMonth(y, m) ==
    IF m = 1 THEN 0 ELSE DaysBeforeMonth(y, m - 1) + MonthLen(y, m - 1)

\* The day number of the last day of the year before y.
RECURSIVE DaysBeforeYear(_)
DaysBeforeYear(y) ==
    IF y = 2026 THEN 0
    ELSE IF y > 2026
         THEN DaysBeforeYear(y - 1) + (IF IsLeap(y - 1) THEN 366 ELSE 365)
    ELSE DaysBeforeYear(y + 1) - (IF IsLeap(y) THEN 366 ELSE 365)

\* new Date("YYYY-MM-DD"): the day whose midnight UTC it is.
parseDay(text) ==
    DaysBeforeYear(digits(SubSeq(text, 1, 4)))
        + DaysBeforeMonth(digits(SubSeq(text, 1, 4)),
                          digits(SubSeq(text, 6, 7)))
        + digits(SubSeq(text, 9, 10))

\* The local calendar day at hour h UTC of day t.
LocalDay(zone, t, h) == DayOfInstant(LocalTime(zone, Instant(t, h)))

\* format(new Date(m.date), 'MMM dd')
formatStored(zone, text) == formatMMMdd(LocalDay(zone, parseDay(text), 0))

\* last7Days of the dashboard: Array.from evaluates new Date() once for
\* each of the 7 days.  The clock reads day t at the first k evaluations
\* and day t + 1 at the later ones.
last7Days(zone, t, h, k) ==
    [i \in 1..7 |->
        formatMMMdd(LocalDay(zone, IF i <= k THEN t ELSE t + 1, h) - (7 - i))]

\* healthMetrics.filter(m => m.type === type && format(...) === day)
dayMetricsOf(healthMetrics, type, day, zone) ==
    SelectSeq(healthMetrics,
              LAMBDA m : /\ Field(m, "type") = Str(type)
                         /\ formatStored(zone, Field(m, "date").s) = day)

firstValueOr0(dayMetrics) ==
    IF Len(dayMetrics) > 0 THEN Field(dayMetrics[1], "value") ELSE Num(0)

weightData(healthMetrics, days, zone) ==
    [i \in 1..7 |->
        [day    |-> days[i],
         weight |-> firstValueOr0(
                        dayMetricsOf(healthMetrics, "weight", days[i], zone))]]

stepsData(healthMetrics, days, zone) ==
    [i \in 1..7 |->
        [day   |-> days[i],
         steps |-> firstValueOr0(
                       dayMetricsOf(healthMetrics, "steps", days[i], zone))]]

\* The dashboard renders: the charts are computed from its healthMetrics.
DashboardRender ==
    /\ dashboard.mounted
    /\ \E k \in 0..7 :
          LET days == last7Days(timeZone, now, hour, k)
          IN  /\ k < 7 => now < StartDay + MaxTicks
              /\ now' = IF k < 7 THEN now + 1 ELSE now
              /\ ScreenStep("Dashboard.render", Arg("", <<>>, k),
                     RetObject(
                         [weightData |-> weightData(dashboard.healthMetrics,
                                                    days, timeZone),
                          stepsData  |-> stepsData(dashboard.healthMetrics,
                                                   days, timeZone)]),
                     storage)
    /\ UNCHANGED <<uuid, calls, dashboard, screen>>

\* reduce((sum, x) => sum + x[field], 0) over numbers: NaN once a value is
\* not a number.
RECURSIVE SumOf(_, _)
SumOf(list, field) ==
    IF Len(list) = 0 THEN Num(0)
    ELSE LET rest  == SumOf(Tail(list), field)
             value == toNumber(Field(Head(list), field))
         IN  IF rest.t # "num" \/ value.t # "num" THEN NaN
             ELSE Num(value.n + rest.n)

\* sum / count, count at least 1.
Mean(sum, count) == IF sum.t # "num" THEN NaN ELSE Num(sum.n \div count)

\* [...list].sort((a, b) => new Date(b.date).getTime() -
\* new Date(a.date).getTime()): newest first; the sort is stable, entries
\* of one date keep their order.
sortByDateDesc(list) ==
    LET day  == [i \in 1..Len(list) |-> parseDay(Field(list[i], "date").s)]
        rank == [i \in 1..Len(list) |->
                    1 + Cardinality({j \in 1..Len(list) :
                            \/ day[j] > day[i]
                            \/ day[j] = day[i] /\ j < i})]
    IN  [r \in 1..Len(list) |->
            list[CHOOSE i \in 1..Len(list) : rank[i] = r]]

\* list.slice(0, n)
sliceTo(list, n) == SubSeq(list, 1, IF Len(list) < n THEN Len(list) ELSE n)

\* last30Days of the vitals page; the clock as in last7Days.
last30Days(zone, t, h, k) ==
    [i \in 1..30 |->
        LET d == LocalDay(zone, IF i <= k THEN t ELSE t + 1, h) - (30 - i)
        IN  [day |-> formatMMMdd(d), date |-> formatISO(d)]]

\* metrics.filter(m => m.type === selectedVital && m.date === day.date)
vitalDayMetrics(metrics, selectedVital, date) ==
    SelectSeq(metrics,
              LAMBDA m : /\ Field(m, "type") = Str(selectedVital)
                         /\ Field(m, "date") = Str(date))

\* One item of selectedVitalData before the filter: the day's mean, or null.
vitalDayItem(dayMetrics, day) ==
    [day   |-> day,
     value |-> IF Len(dayMetrics) > 0
               THEN Mean(SumOf(dayMetrics, "value"), Len(dayMetrics))
               ELSE Null]

selectedVitalData(metrics, selectedVital, days) ==
    SelectSeq([i \in 1..30 |->
                  vitalDayItem(vitalDayMetrics(metrics, selectedVital,
                                               days[i].date),
                               days[i].day)],
              LAMBDA item : item.value # Null)

\* The result of the trend formula for the two averages, in hundredths of
\* a percent; a division by 0 gives NaN, Infinity or -Infinity.
trendOf(recentAvg, olderAvg) ==
    IF recentAvg.t # "num" \/ olderAvg.t # "num" THEN NaN
    ELSE IF olderAvg.n = 0
         THEN IF recentAvg.n = 0 THEN NaN
              ELSE IF recentAvg.n > 0 THEN Infinity
              ELSE Str("-Infinity")
    ELSE Num(((recentAvg.n - olderAvg.n) * Hundredths(100)) \div olderAvg.n)

calculateTrend(metrics, type) ==
    LET recentMetrics ==
            sliceTo(sortByDateDesc(
                        SelectSeq(metrics,
                                  LAMBDA m : Field(m, "type") = Str(type))),
                    7)
        half   == (Len(recentMetrics) + 1) \div 2
        recent == SubSeq(recentMetrics, 1, half)
        older  == SubSeq(recentMetrics, half + 1, Len(recentMetrics))
    IN  IF Len(recentMetrics) < 2 THEN Num(0)
        ELSE trendOf(Mean(SumOf(recent, "value"), Len(recent)),
                     Mean(SumOf(older, "value"), Len(older)))

\* avgCaloriesPerSession of the activities page.
avgCaloriesPerSession(activities) ==
    IF Len(activities) > 0
    THEN Mean(SumOf(activities, "calories"), Len(activities))
    ELSE Num(0)

\* String.prototype.toLowerCase and includes, on ASCII text.
UpperCase == "ABCDEFGHIJKLMNOPQRSTUVWXYZ"
LowerCase == "abcdefghijklmnopqrstuvwxyz"

\* A variant that leaves every character as it is.
lowerChar_AsIs(c) == c

lowerChar(c) ==
    IF \E j \in 1..26 : SubSeq(UpperCase, j, j) = c
    THEN LET j == CHOOSE j \in 1..26 : SubSeq(UpperCase, j, j) = c
         IN  SubSeq(LowerCase, j, j)
    ELSE c

RECURSIVE toLowerCase(_)
toLowerCase(text) ==
    IF Len(text) = 0 THEN ""
    ELSE lowerChar(SubSeq(text, 1, 1))
             \o toLowerCase(SubSeq(text, 2, Len(text)))

includes(text, term) ==
    \E i \in 0..(Len(text) - Len(term)) :
        SubSeq(text, i + 1, i + Len(term)) = term

\* filteredEntries of the nutrition page.
filteredEntries(entries, filterMeal, searchTerm) ==
    sortByDateDesc(
        SelectSeq(
            SelectSeq(entries,
                      LAMBDA entry : \/ filterMeal = "all"
                                     \/ Field(entry, "meal") = Str(filterMeal)),
            LAMBDA entry : includes(toLowerCase(Field(entry, "food").s),
                                    toLowerCase(searchTerm))))

\* filteredEntries.slice(0, 10): the entries the food log shows.
foodLog(entries, filterMeal, searchTerm) ==
    sliceTo(filteredEntries(entries, filterMeal, searchTerm), 10)

\* Math.round of a number that is not negative.
MathRound(v) ==
    IF v.t # "num" THEN v ELSE Num(Hundredths((v.n + 50) \div 100))

\* The vitals page renders: the chart of the selected vital and the trend
\* of every vital type are computed from its metrics.
VitalsRender ==
    /\ IsOpen("vitals")
    /\ \E k \in 0..30 :
          /\ k < 30 => now < StartDay + MaxTicks
          /\ now' = IF k < 30 THEN now + 1 ELSE now
          /\ ScreenStep("Vitals.render", Arg("", <<>>, k),
                 RetObject(
                     [selectedVitalData |->
                          selectedVitalData(screen.metrics,
                              screen.selectedVital,
                              last30Days(timeZone, now, hour, k)),
                      trend |-> [type \in VitalTypes |->
                                    calculateTrend(screen.metrics, type)]]),
                 storage)
    /\ UNCHANGED <<uuid, calls, dashboard, screen>>

\* The activities page renders: the 'Avg Calories/Session' card shows
\* Math.round(avgCaloriesPerSession) above the caption 'Last 30 days'.
ActivitiesRender ==
    /\ IsOpen("activities")
    /\ ScreenStep("Activities.render", NoArg,
           RetObject([avgCaloriesCard |->
                          MathRound(avgCaloriesPerSession(screen.activities)),
                      caption |-> Str("Last 30 days")]),
           storage)
    /\ UNCHANGED <<now, uuid, calls, dashboard, screen>>

\* What the user types into the search box and selects as meal filter.
SearchInputs == {"", "OAT"}
FilterMealInputs == {"all", "lunch"}

\* The search box and the meal select of the nutrition page.
NutritionFilter ==
    /\ IsOpen("nutrition")
    /\ \/ \E v \in SearchInputs :
             /\ v # screen.searchTerm
             /\ screen' = [screen EXCEPT !.searchTerm = v]
       \/ \E v \in FilterMealInputs :
             /\ v # screen.filterMeal
             /\ screen' = [screen EXCEPT !.filterMeal = v]
    /\ ScreenStep("Nutrition.setFilter", NoArg, RetVoid, storage)
    /\ UNCHANGED <<now, uuid, calls, dashboard>>

\* The nutrition page renders its food log.
NutritionRender ==
    /\ IsOpen("nutrition")
    /\ ScreenStep("Nutrition.render", NoArg,
           RetArray(foodLog(screen.entries, screen.filterMeal,
                            screen.searchTerm)),
           storage)
    /\ UNCHANGED <<now, uuid, calls, dashboard, screen>>

(***************************************************************************)
(* The lists the charts are explored on: what a user has stored who has    *)
(* recorded vitals for more than a year, activities for more than a month  *)
(* and twelve meals in the last week.                                      *)
(***************************************************************************)
Metric(n, type, value, unit, day) ==
    [id |-> uuidv4(n), type |-> Str(type), value |-> Num(value),
     unit |-> Str(unit), date |-> Str(formatISO(day))]

TrackedMetrics ==
    << Metric(1, "weight", Hundredths(80), "kg", StartDay - 367),
       Metric(2, "weight", Hundredths(72), "kg", StartDay - 1),
       Metric(3, "weight", Hundredths(70), "kg", StartDay),
       Metric(4, "steps", Hundredths(9000), "steps", StartDay - 35),
       Metric(5, "steps", Hundredths(6000), "steps", StartDay - 1),
       Metric(6, "steps", Hundredths(8000), "steps", StartDay - 1),
       Metric(7, "steps", Hundredths(7000), "steps", StartDay),
       Metric(8, "water_intake", 0, "L", StartDay - 3),
       Metric(9, "water_intake", Hundredths(2), "L", StartDay) >>

Activity(n, type, duration, calories, day) ==
    [id |-> uuidv4(n), type |-> Str(type), duration |-> Num(duration),
     calories |-> Num(calories), notes |-> Str(""),
     date |-> Str(formatISO(day))]

TrackedActivities ==
    << Activity(10, "running", Hundredths(90), Hundredths(900),
                StartDay - 40),
       Activity(11, "walking", Hundredths(30), Hundredths(200),
                StartDay - 1),
       Activity(12, "yoga", Hundredths(45), Hundredths(300), StartDay) >>

LoggedMeals == 12

TrackedNutrition ==
    [i \in 1..LoggedMeals |->
        [id |-> uuidv4(12 + i), meal |-> Str(Meals[(i % 3) + 1]),
         food |-> Str(Foods[(i % 5) + 1]),
         calories |-> Num(Hundredths(100 * i)), protein |-> Num(0),
         carbs |-> Num(0), fat |-> Num(0),
         date |-> Str(formatISO(StartDay - ((i * 3) % 7)))]]

Tracked ==
    LET a == saveToStorage(TRUE, EmptyStorage, HEALTH_METRICS_KEY,
                           TrackedMetrics)
        b == saveToStorage(TRUE, a, ACTIVITIES_KEY, TrackedActivities)
        c == saveToStorage(TRUE, b, NUTRITION_ENTRIES_KEY, TrackedNutrition)
    IN  [st |-> c, ids |-> 12 + LoggedMeals]

ChartRuntimes ==
    { [st |-> Tracked.st, ids |-> Tracked.ids],
      [st |-> Measured.st, ids |-> Measured.ids] }

\* The hours (UTC) at which the pages are used.
ChartHours == {3, 12}

InitCharts ==
    /\ \E r \in ChartRuntimes : storage = r.st /\ uuid = r.ids
    /\ window = TRUE
    /\ timeZone \in TimeZones
    /\ hour \in ChartHours
    /\ now = StartDay
    /\ calls = 0
    /\ dashboard = [mounted |-> FALSE, healthMetrics |-> <<>>,
                    todaysActivities |-> <<>>, todaysNutrition |-> <<>>,
                    goals |-> <<>>]
    /\ last = NoCall
    /\ tabs = NoTabs
    /\ goalsPage = NoPage
    /\ opener = "none"
    /\ screen = NoPage

NextCharts ==
    \/ DashboardOpen
    \/ DashboardRender
    \/ VitalsMount
    \/ VitalsSelect
    \/ VitalsRender
    \/ ActivitiesMount
    \/ ActivitiesRender
    \/ NutritionMount
    \/ NutritionFilter
    \/ NutritionRender
    \/ Tick

SpecCharts == InitCharts /\ [][NextCharts]_vars

(***************************************************************************)
(* Claims about the charts and aggregates (SpecCharts).                    *)
(***************************************************************************)
\* The values of the metrics of a type dated on calendar day d.
ValuesOn(metrics, type, d) ==
    {Field(metrics[j], "value") :
        j \in {j \in 1..Len(metrics) :
                  /\ Field(metrics[j], "type") = Str(type)
                  /\ parseDay(Field(metrics[j], "date").s) = d}}

\* The value charted is one of the day's, or 0 when the day has none.
ChartedFrom(value, values) ==
    IF values = {} THEN value = Num(0) ELSE value \in values

\* The last render computed the dashboard's charts within one day.
DashboardCharted == last.op = "Dashboard.render" /\ last.arg.n = 7

\* C25: in the dashboard's 7-day charts the weight and the steps charted
\* for each of the last 7 days is the value of a metric of that type dated
\* that calendar day, and 0 when there is none; no metric dated another
\* day contributes.
C25_ChartsBucketByDay ==
    DashboardCharted =>
        \A i \in 1..7 :
            LET d == LocalDay(timeZone, now, hour) - (7 - i)
            IN  /\ ChartedFrom(last.ret.arr[1].weightData[i].weight,
                        ValuesOn(dashboard.healthMetrics, "weight", d))
                /\ ChartedFrom(last.ret.arr[1].stepsData[i].steps,
                        ValuesOn(dashboard.healthMetrics, "steps", d))

\* The metrics of a type dated on calendar day d, in stored order.
MetricsOn(metrics, type, d) ==
    SelectSeq(metrics,
              LAMBDA m : /\ Field(m, "type") = Str(type)
                         /\ parseDay(Field(m, "date").s) = d)

\* The days among the 30 up to `today` on which a metric of the type is
\* dated.
DaysWith(metrics, type, today) ==
    {d \in (today - 29)..today : Len(MetricsOn(metrics, type, d)) > 0}

VitalsCharted == last.op = "Vitals.render"

\* C26: the trend chart the vitals page renders has at most 30 points, one
\* for each of the last 30 days on which a metric of the selected type is
\* dated and none for the other days, and the value of a day's point is
\* the mean of the values of the selected type's metrics dated that day.
C26_TrendPointsAreDailyMeans ==
    VitalsCharted =>
        LET points == last.ret.arr[1].selectedVitalData
            today  == LocalDay(timeZone, now, hour)
            days   == DaysWith(screen.metrics, screen.selectedVital, today)
        IN  /\ Len(points) <= 30
            /\ Len(points) = Cardinality(days)
            /\ \A d \in days :
                  \E i \in 1..Len(points) :
                      /\ points[i].day = formatMMMdd(d)
                      /\ points[i].value
                             = Mean(SumOf(MetricsOn(screen.metrics,
                                              screen.selectedVital, d),
                                          "value"),
                                    Len(MetricsOn(screen.metrics,
                                            screen.selectedVital, d)))

\* How many metrics of the type the list holds.
StoredOfType(metrics, type) ==
    Cardinality({j \in 1..Len(metrics) :
                    Field(metrics[j], "type") = Str(type)})

\* C27: the trend the vitals page computes for a type is 0 when fewer than
\* two metrics of the type are stored, and is a defined number for every
\* stored list of metrics, also when the older values are all 0.
C27_TrendIsDefined ==
    VitalsCharted =>
        \A type \in VitalTypes :
            /\ StoredOfType(screen.metrics, type) < 2 =>
                   last.ret.arr[1].trend[type] = Num(0)
            /\ last.ret.arr[1].trend[type].t = "num"

\* The activities dated on one of the 30 days up to `today`.
InLast30Days(activities, today) ==
    SelectSeq(activities,
              LAMBDA a : /\ parseDay(Field(a, "date").s) >= today - 29
                         /\ parseDay(Field(a, "date").s) <= today)

ActivitiesShown == last.op = "Activities.render"

\* C28: the 'Avg Calories/Session' card, captioned 'Last 30 days', shows
\* the calories of the activities dated within the last 30 days divided by
\* their number, and 0 when there is none.
C28_AvgCaloriesOfLast30Days ==
    ActivitiesShown =>
        LET recent == InLast30Days(screen.activities,
                                   LocalDay(timeZone, now, hour))
        IN  last.ret.arr[1].avgCaloriesCard
                = IF Len(recent) = 0 THEN Num(0)
                  ELSE MathRound(Mean(SumOf(recent, "calories"),
                                      Len(recent)))

\* Two characters are the same letter, whatever their case.
SameLetter(a, b) ==
    \/ a = b
    \/ \E j \in 1..26 :
          {a, b} = {SubSeq(UpperCase, j, j), SubSeq(LowerCase, j, j)}

\* The text contains the term, case ignored.
Contains(text, term) ==
    \E i \in 0..(Len(text) - Len(term)) :
        \A n \in 1..Len(term) :
            SameLetter(SubSeq(text, i + n, i + n), SubSeq(term, n, n))

\* The stored entries the filter and the search term select.
Matching(entries, filterMeal, searchTerm) ==
    {entries[j] : j \in {j \in 1..Len(entries) :
        /\ filterMeal = "all" \/ Field(entries[j], "meal") = Str(filterMeal)
        /\ Contains(Field(entries[j], "food").s, searchTerm)}}

FoodLogShown == last.op = "Nutrition.render"

\* C29: the food log shows at most 10 entries: of the stored entries that
\* match the meal filter ('all' matches every meal) and whose food contains
\* the search term, case ignored, the first 10 (or all, when fewer) in the
\* order of their dates from newest to oldest; no entry it leaves out is
\* dated later than one it shows.
C29_FoodLogNewestTen ==
    FoodLogShown =>
        LET shown    == last.ret.arr
            matching == Matching(screen.entries, screen.filterMeal,
                                 screen.searchTerm)
            dayOf(e) == parseDay(Field(e, "date").s)
        IN  /\ Len(shown) <= 10
            /\ Len(shown) = IF Cardinality(matching) < 10
                            THEN Cardinality(matching) ELSE 10
            /\ \A i \in 1..Len(shown) : shown[i] \in matching
            /\ \A i, j \in 1..Len(shown) :
                  i < j => /\ shown[i] # shown[j]
                           /\ dayOf(shown[i]) >= dayOf(shown[j])
            /\ \A e \in matching :
                  (\A i \in 1..Len(shown) : shown[i] # e) =>
                      \A i \in 1..Len(shown) : dayOf(e) <= dayOf(shown[i])

C29_Witness ==
    /\ FoodLogShown
    /\ screen.filterMeal = "all"
    /\ screen.searchTerm = ""
    /\ Len(screen.entries) = LoggedMeals
    /\ Len(last.ret.arr) = 10
    /\ last.ret.arr[1].date = Str(formatISO(StartDay))
    /\ \E j \in 1..LoggedMeals :
          \A i \in 1..10 : last.ret.arr[i] # screen.entries[j]

(***************************************************************************)
(* The landing page (Home, src/src/app/page.tsx): a click on the           *)
(* stethoscope sets `fire`, and an effect on [fire] starts a timeout that  *)
(* clears it.  `screen` holds the component's state, the window's timer    *)
(* and the time in milliseconds since the window opened; the timer         *)
(* belongs to the window and outlives the component unless it is cleared.  *)
(* React runs a pending effect before it handles the next event, so while  *)
(* an effect is due no other step is taken.                                *)
(***************************************************************************)
TimeoutMs == 2000
StepMs == 500
MaxMs == 8000

NoTimer == [pending |-> FALSE, due |-> 0]

\* setTimeout(callback, delay) called at time `at`.
setTimeout(at, delay) == [pending |-> TRUE, due |-> at + delay]

\* A variant of the cleanup that leaves the timer as it is.
clearTimeout_Keeps(timer) == timer

clearTimeout(timer) == NoTimer

HomeClosed ==
    [open |-> FALSE, name |-> "home", fire |-> FALSE, effect |-> "idle",
     timer |-> NoTimer, elapsed |-> 0]

InitHome ==
    /\ storage = EmptyStorage /\ uuid = 0
    /\ window = TRUE
    /\ timeZone = "UTC"
    /\ hour = 12
    /\ now = StartDay
    /\ calls = 0
    /\ dashboard = [mounted |-> FALSE, healthMetrics |-> <<>>,
                    todaysActivities |-> <<>>, todaysNutrition |-> <<>>,
                    goals |-> <<>>]
    /\ last = NoCall
    /\ tabs = NoTabs
    /\ goalsPage = NoPage
    /\ opener = "none"
    /\ screen = HomeClosed

\* A step of the landing page: nothing but `screen` and `last` changes.
HomeStep(op) ==
    /\ ScreenStep(op, NoArg, RetVoid, storage)
    /\ UNCHANGED <<now, uuid, calls, dashboard>>

\* Home mounts: useState(false); the effect is due for its first run.
HomeMount ==
    /\ NoneOpen
    /\ screen' = [screen EXCEPT !.open = TRUE, !.fire = FALSE,
                                !.effect = "mount"]
    /\ HomeStep("Home.mount")

\* The stethoscope's onClick: setFire(true).  Setting the state to the
\* value it has renders nothing and runs no effect.
StethoscopeClick ==
    /\ IsOpen("home")
    /\ screen.effect = "idle"
    /\ screen.elapsed + TimeoutMs <= MaxMs
    /\ screen' = IF screen.fire THEN screen
                 ELSE [screen EXCEPT !.fire = TRUE, !.effect = "update"]
    /\ HomeStep("setFire(true)")

\* The effect on [fire]: on an update the cleanup the last run returned is
\* called first (the last run returned one if fire was true then, that is
\* if it is false now); then, if fire, the timeout is set.
FireEffect ==
    /\ IsOpen("home")
    /\ screen.effect # "idle"
    /\ screen' = [screen EXCEPT
           !.effect = "idle",
           !.timer  = IF screen.fire
                      THEN setTimeout(screen.elapsed, TimeoutMs)
                      ELSE IF screen.effect = "update"
                           THEN clearTimeout(screen.timer)
                      ELSE screen.timer]
    /\ HomeStep("Home.effect")

\* The timer's callback: setFire(false).  Not before the timer is due; on
\* an unmounted component the call does nothing.
FireTimeout ==
    /\ screen.effect = "idle"
    /\ screen.timer.pending
    /\ screen.elapsed >= screen.timer.due
    /\ screen' = IF screen.open /\ screen.fire
                 THEN [screen EXCEPT !.timer = NoTimer, !.fire = FALSE,
                                     !.effect = "update"]
                 ELSE [screen EXCEPT !.timer = NoTimer]
    /\ HomeStep("setFire(false)")

\* Home unmounts: the cleanup of the last run of the effect is called, if
\* that run returned one.
HomeUnmount ==
    /\ IsOpen("home")
    /\ screen.effect = "idle"
    /\ screen' = [screen EXCEPT
           !.open  = FALSE,
           !.fire  = FALSE,
           !.timer = IF screen.fire THEN clearTimeout(screen.timer)
                     ELSE screen.timer]
    /\ HomeStep("Home.unmount")

\* Time passes.
Elapse ==
    /\ screen.effect = "idle"
    /\ screen.elapsed < MaxMs
    /\ screen' = [screen EXCEPT !.elapsed = screen.elapsed + StepMs]
    /\ last' = NoCall
    /\ UNCHANGED <<env, storage, now, uuid, calls, dashboard, tabs,
                   goalsPage, opener>>

NextHome ==
    \/ HomeMount
    \/ StethoscopeClick
    \/ FireEffect
    \/ FireTimeout
    \/ HomeUnmount
    \/ Elapse

SpecHome == InitHome /\ [][NextHome]_vars

\* The browser runs a due effect and a due timer, and time passes.
SpecHomeFair ==
    /\ SpecHome
    /\ WF_vars(FireEffect)
    /\ WF_vars(FireTimeout)
    /\ WF_vars(Elapse)

(***************************************************************************)
(* Claims about the landing page (SpecHomeFair).                           *)
(***************************************************************************)
OnFire == screen.open /\ screen.fire

\* C30: the fire always goes out.  A timeout set by the effect is due 2000
\* ms after it was set and puts the fire out no earlier; a click while the
\* fire burns leaves the timer as it is; a timer is pending only while the
\* page is mounted and the fire burns; and whenever the fire burns it is
\* eventually out again.
C30_FireGoesOut ==
    /\ [][/\ (~screen.timer.pending /\ screen'.timer.pending) =>
                 screen'.timer.due = screen.elapsed + TimeoutMs
          /\ (OnFire /\ screen'.open /\ ~screen'.fire) =>
                 /\ screen.timer.pending
                 /\ screen.elapsed >= screen.timer.due
          /\ (OnFire /\ last'.op = "setFire(true)") =>
                 screen'.timer = screen.timer]_vars
    /\ [](screen.timer.pending => OnFire)
    /\ (OnFire ~> ~OnFire)

C30_Witness ==
    /\ last.op = "setFire(false)"
    /\ screen.open /\ ~screen.fire
    /\ ~screen.timer.pending
    /\ screen.elapsed >= StepMs + TimeoutMs

====
